---- MODULE Spec2Model ----
(***************************************************************************)
(* Prize reservation subsystem of the Lucky Dice application: the prizes   *)
(* and entries collections, the roll (allocate) handler with its           *)
(* background stale-entry sweep, and the confirm and release handlers.     *)
(* Every store access of a handler (one MongoDB call) is one atomic step;  *)
(* handlers of different requests interleave at that granularity.          *)
(***************************************************************************)
EXTENDS Integers, Sequences, FiniteSets, TLC

\* ---------------------------------------------------------------- bounds
NumPrizes == 2
MaxInv == 2
MaxRequests == 2
MaxRolls == 3
TickMinutes == 5
MaxClock == 10
MaxEntries == 3

\* ------------------------------------------------------ program constants
\* api/roll.ts: new Date(Date.now() - 5 * 60 * 1000), in minutes
StaleMinutes == 5

PrizeIds == 1..NumPrizes
\* Request slots: the slots of a kind are taken in order of arrival. A
\* specification bounds the requests that arrive: MaxRequests of any mix of
\* kinds, or MaxRolls roll requests.
RollIds == 1..MaxRolls
ReleaseIds == 1..MaxRequests
ConfirmIds == 1..MaxRequests

\* An ObjectId that is well-formed and matches no entry.
NoEntry == 0

\* ----------------------------------------------------------------- emails
\* Request bodies: e-mail strings as sequences of characters; the empty
\* sequence is a body without email.
RawEmails ==
  { <<>>,
    <<"a", "@", "b", ".", "c">>,
    <<"A", "@", "b", ".", "c">>,
    <<"d", "@", "b", ".", "c">>,
    <<"a", "b", ".", "c">> }

IsSpace(ch) == ch = " "

\* /^[^\s@]+@[^\s@]+\.[^\s@]+$/
validateEmailAny(s) == TRUE

validateEmail(s) ==
  \E i \in 1..Len(s) : \E j \in 1..Len(s) :
    /\ 1 < i /\ i + 1 < j /\ j < Len(s)
    /\ s[i] = "@"
    /\ s[j] = "."
    /\ \A k \in 1..Len(s) : k # i => (~IsSpace(s[k]) /\ s[k] # "@")

LowerChar(ch) == IF ch = "A" THEN "a" ELSE ch

toLowerCase(s) == [k \in 1..Len(s) |-> LowerChar(s[k])]

RECURSIVE trimLeft(_)
trimLeft(s) == IF s # <<>> /\ IsSpace(Head(s)) THEN trimLeft(Tail(s)) ELSE s

RECURSIVE trimRight(_)
trimRight(s) ==
  IF s # <<>> /\ IsSpace(s[Len(s)]) THEN trimRight(SubSeq(s, 1, Len(s) - 1)) ELSE s

trim(s) == trimRight(trimLeft(s))

\* email.toLowerCase().trim()
normalizedEmail(s) == trim(toLowerCase(s))

\* ------------------------------------------------------------------ state
VARIABLES
  inventory,  \* prizes collection: prize id -> inventory
  seeded,     \* the inventory each prize document was seeded with
  entries,    \* entries collection, in insertion (_id) order
  now,        \* wall clock, minutes
  roll,       \* roll requests
  sweep,      \* the background stale cleanup a roll request may start
  rel,        \* release requests
  conf,       \* confirm requests
  stats,      \* the stats request of the admin dashboard
  patch,      \* the collected-flag update of the admin dashboard
  admin,      \* the prize update or reset of the admin dashboard
  listing,    \* the entries listing of the admin dashboard
  docs,       \* prizes collection: prize id -> number of documents with that id
  idIndex,    \* the unique index { id: 1 } of the prizes collection exists
  seed,       \* GET /api/prizes requests
  express,    \* the Express server, run on a store of its own
  page        \* the roll page of one participant

vars ==
  <<inventory, seeded, entries, now, roll, sweep, rel, conf, stats, patch, admin,
    listing, docs, idIndex, seed, express, page>>

EntryIds == 1..Len(entries)

LiveStatuses == {"reserved", "confirmed"}

\* findOne({ email, status: { $in: ['confirmed', 'reserved'] } })
HasConfirmedEntry(es, email) ==
  \E e \in 1..Len(es) : es[e].email = email /\ es[e].status = "confirmed"

HasAnyEntry(es, email) == \E e \in 1..Len(es) : es[e].email = email

HasLiveEntry(es, email) ==
  \E e \in 1..Len(es) : es[e].email = email /\ es[e].status \in LiveStatuses

\* find({ inventory: { $gt: 0 } })
AvailablePrizesAll(inv) == {p \in DOMAIN inv : inv[p] >= 0}

AvailablePrizes(inv) == {p \in DOMAIN inv : inv[p] > 0}

\* retryPrizes[0]: the first document in the collection's natural order,
\* which is the seeding order (ascending id)
FirstPrize(ps) == CHOOSE p \in ps : \A q \in ps : p <= q

\* filter of the conditional decrement: { id, inventory: { $gt: 0 } }
ClaimMatchesUnguarded(inv, p) == p \in DOMAIN inv

ClaimMatches(inv, p) == p \in DOMAIN inv /\ inv[p] > 0

\* $inc: { inventory: -1 }
DecrementDropped(inv, p) == inv

DecrementByTwo(inv, p) == [inv EXCEPT ![p] = @ - 2]

Decrement(inv, p) == [inv EXCEPT ![p] = @ - 1]

\* $inc: { inventory: 1 } on { id: prizeId }
CreditTwice(inv, p) == IF p \in DOMAIN inv THEN [inv EXCEPT ![p] = @ + 2] ELSE inv

CreditNone(inv, p) == inv

Credit(inv, p) == IF p \in DOMAIN inv THEN [inv EXCEPT ![p] = @ + 1] ELSE inv

\* DEFAULT_PRIZES: the inventory a prize is seeded with and reset to
DefaultInventory(p) == MaxInv

\* PUT /api/prizes/:id: updates.inventory = Math.max(0, inventory)
StoredInventoryRaw(requested) == requested

StoredInventory(requested) == IF requested > 0 THEN requested ELSE 0

\* updateOne({ id }, { $set: { ...prize } }, { upsert: true })
Upsert(inv, p, value) ==
  [q \in DOMAIN inv \cup {p} |-> IF q = p THEN value ELSE inv[q]]

\* find({ status: 'reserved', createdAt: { $lt: staleThreshold } }).toArray()
RECURSIVE StaleFrom(_, _, _)
StaleFrom(es, threshold, e) ==
  IF e > Len(es) THEN <<>>
  ELSE IF es[e].status = "reserved" /\ es[e].createdAt < threshold
       THEN <<e>> \o StaleFrom(es, threshold, e + 1)
       ELSE StaleFrom(es, threshold, e + 1)

RECURSIVE NewerFrom(_, _, _)
NewerFrom(es, threshold, e) ==
  IF e > Len(es) THEN <<>>
  ELSE IF es[e].status = "reserved" /\ es[e].createdAt > threshold
       THEN <<e>> \o NewerFrom(es, threshold, e + 1)
       ELSE NewerFrom(es, threshold, e + 1)

StaleEntriesNewer(es, threshold) == NewerFrom(es, threshold, 1)

StaleEntries(es, threshold) == StaleFrom(es, threshold, 1)

\* $set: { status, updatedAt }
SetStatus(es, e, status, at) ==
  [es EXCEPT ![e].status = status, ![e].updatedAt = at]

\* filter of confirm's update: { _id, status: 'reserved' }
ConfirmMatchesAnyStatus(es, e) == e \in 1..Len(es)

ConfirmMatches(es, e) == e \in 1..Len(es) /\ es[e].status = "reserved"

\* filter of release's first query: { _id, status: 'reserved' }
ReleaseMatchesAnyStatus(es, e) == e \in 1..Len(es)

ReleaseMatches(es, e) == e \in 1..Len(es) /\ es[e].status = "reserved"

\* stats: countDocuments({ status: 'confirmed' })
totalRollsAnyStatus(es) == Len(es)

totalRolls(es) == Cardinality({e \in 1..Len(es) : es[e].status = "confirmed"})

\* stats: countDocuments({ status: 'confirmed', collected: true })
collected(es) ==
  Cardinality({e \in 1..Len(es) : es[e].status = "confirmed" /\ es[e].collected})

\* stats: aggregate([{ $match: { status: 'confirmed' } },
\*                   { $group: { _id: '$prizeId', count: { $sum: 1 } } }])
distributionAnyStatus(es) ==
  [p \in {es[e].prizeId : e \in 1..Len(es)} |->
     Cardinality({e \in 1..Len(es) : es[e].prizeId = p})]

distribution(es) ==
  [p \in {es[e].prizeId : e \in {d \in 1..Len(es) : es[d].status = "confirmed"}} |->
     Cardinality({e \in 1..Len(es) : es[e].status = "confirmed" /\ es[e].prizeId = p})]

\* stats: prizes.map(p => ... count: dist?.count || 0 ...)
prizeDistribution(prizes, dist) ==
  [p \in DOMAIN prizes |-> IF p \in DOMAIN dist THEN dist[p] ELSE 0]

\* the name and icon fields of prize document p
PrizeName(p) == <<"name", p>>

PrizeIcon(p) == <<"icon", p>>

\* PATCH: $set: { collected, updatedAt }
SetCollectedConfirms(es, e, flag, at) ==
  [es EXCEPT ![e].collected = flag, ![e].status = "confirmed", ![e].updatedAt = at]

SetCollected(es, e, flag, at) ==
  [es EXCEPT ![e].collected = flag, ![e].updatedAt = at]

\* GET /api/entries: query = { status: 'confirmed' }, with collected: true
\* for status=collected and collected: false for status=pending
ListMatches(entry, status) ==
  /\ entry.status = "confirmed"
  /\ status = "collected" => entry.collected
  /\ status = "pending" => ~entry.collected

\* find(query).sort({ createdAt: -1 }): the ids of the matching entries,
\* newest first (entries created in the same minute in any one order)
RECURSIVE ListFrom(_, _, _)
ListFrom(es, status, e) ==
  IF e = 0 THEN <<>>
  ELSE (IF ListMatches(es[e], status) THEN <<e>> ELSE <<>>)
       \o ListFrom(es, status, e - 1)

\* the entry document a roll inserts, built from the prize document p
NewEntryConfirmed(email, p, at) ==
  [email |-> email, prizeId |-> p, prizeName |-> PrizeName(p),
   prizeIcon |-> PrizeIcon(p), collected |-> FALSE, status |-> "confirmed",
   createdAt |-> at, updatedAt |-> at]

NewEntryFirstPrize(email, p, at) ==
  [email |-> email, prizeId |-> p, prizeName |-> PrizeName(1),
   prizeIcon |-> PrizeIcon(1), collected |-> FALSE, status |-> "reserved",
   createdAt |-> at, updatedAt |-> at]

NewEntry(email, p, at) ==
  [email |-> email, prizeId |-> p, prizeName |-> PrizeName(p),
   prizeIcon |-> PrizeIcon(p), collected |-> FALSE, status |-> "reserved",
   createdAt |-> at, updatedAt |-> at]

\* ------------------------------------------------------------------- Init
\* Every write carries the new Date() its handler took when it issued the
\* call (field at), which the store applies at the step of the write.
IdleRoll ==
  [pc |-> "idle", email |-> <<>>, readExisting |-> FALSE, readAvail |-> FALSE,
   existing |-> FALSE, available |-> {}, prize |-> 0, retried |-> FALSE,
   attempts |-> 0, at |-> 0,
   entryId |-> NoEntry, outcome |-> "none"]

IdleSweep == [pc |-> "none", threshold |-> 0, stale |-> <<>>, i |-> 1, at |-> 0]

IdleRelease ==
  [pc |-> "idle", entryId |-> NoEntry, prizeId |-> 0, at |-> 0, outcome |-> "none"]

IdleConfirm ==
  [pc |-> "idle", entryId |-> NoEntry, matched |-> FALSE, at |-> 0, outcome |-> "none"]

IdleStats ==
  [pc |-> "idle", gotTotal |-> FALSE, gotCollected |-> FALSE, gotPrizes |-> FALSE,
   totalRolls |-> 0, collected |-> 0, pending |-> 0, prizes |-> <<>>,
   prizeDistribution |-> <<>>]

IdlePatch ==
  [pc |-> "idle", entryId |-> NoEntry, collected |-> FALSE, at |-> 0,
   outcome |-> "none"]

IdleAdmin ==
  [pc |-> "idle", prizeId |-> 0, requested |-> 0, inventory |-> 0, next |-> 0,
   outcome |-> "none"]

IdleListing ==
  [pc |-> "idle", status |-> "all", total |-> 0, entries |-> <<>>, outcome |-> "none"]

\* The store a behaviour starts from: the prizes as seeded and no entry, or
\* the store one earlier roll left behind (one reserved entry, its unit taken).
\* an HTTP response: status code and error code
NoResponse == [status |-> 0, code |-> "none"]

\* the Express server before its first request, on a copy of the store: the
\* number of roll, confirm and release requests it has served, its last
\* response, and the response the serverless handler gave to that request
IdleExpress(inv, es) ==
  [inventory |-> inv, entries |-> es, rolls |-> 0, confirms |-> 0, releases |-> 0,
   response |-> NoResponse, expected |-> NoResponse]

\* the roll page: diceState and currentEntryId of Index.tsx, the handler the
\* page is in, the requests it waits for, and whether the safety timeout
\* ended the roll
IdlePage ==
  [diceState |-> "idle", step |-> "idle", rollReq |-> 0, confReq |-> 0,
   currentEntryId |-> NoEntry, forced |-> FALSE]

SeedIds == 1..MaxRequests

\* a GET /api/prizes request: indexes is the state of the createIndexes call
\* that getDb starts, without awaiting it, on a fresh function instance
IdleSeed == [pc |-> "idle", count |-> 0, next |-> 0, indexes |-> "none", outcome |-> "none"]

\* a prizes collection that holds one document per seeded prize id
Seeded ==
  /\ docs = [p \in PrizeIds |-> IF p \in DOMAIN seeded THEN 1 ELSE 0]
  /\ idIndex = TRUE

EarlierEmail == <<"a", "@", "b", ".", "c">>

NoRequests ==
  /\ now = 0
  /\ roll = [r \in RollIds |-> IdleRoll]
  /\ sweep = [r \in RollIds |-> IdleSweep]
  /\ rel = [x \in ReleaseIds |-> IdleRelease]
  /\ conf = [c \in ConfirmIds |-> IdleConfirm]
  /\ stats = IdleStats
  /\ patch = IdlePatch
  /\ admin = IdleAdmin
  /\ listing = IdleListing
  /\ seed = [s \in SeedIds |-> IdleSeed]
  /\ express = IdleExpress(inventory, entries)
  /\ page = IdlePage

\* seedPrizes: a prize document per id, each with its default inventory
InitFresh ==
  /\ \E S \in (SUBSET PrizeIds) \ {{}} : seeded \in [S -> 1..MaxInv]
  /\ entries = <<>>
  /\ inventory = seeded
  /\ Seeded
  /\ NoRequests

Init ==
  /\ \E S \in (SUBSET PrizeIds) \ {{}} : seeded \in [S -> 1..MaxInv]
  /\ \/ /\ entries = <<>>
        /\ inventory = seeded
     \/ \E p \in DOMAIN seeded :
          /\ entries = <<NewEntry(EarlierEmail, p, 0)>>
          /\ inventory = Decrement(seeded, p)
  /\ Seeded
  /\ NoRequests

\* ------------------------------------------------------------------- roll
Finish(rec, outcome) == [rec EXCEPT !.pc = "done", !.outcome = outcome]

\* the number of requests that have arrived so far
Started ==
  Cardinality({r \in RollIds : roll[r].pc # "idle"})
  + Cardinality({x \in ReleaseIds : rel[x].pc # "idle"})
  + Cardinality({c \in ConfirmIds : conf[c].pc # "idle"})

\* the response is sent: the handler's locals are gone
RollDone(rec, outcome) ==
  [IdleRoll EXCEPT !.pc = "done", !.outcome = outcome, !.email = rec.email,
                   !.retried = rec.retried, !.attempts = rec.attempts]

\* the request arrives; the email is validated and normalized
RollBegin(r, raw) ==
  /\ roll[r].pc = "idle"
  /\ r > 1 => roll[r - 1].pc # "idle"
  /\ roll' = [roll EXCEPT ![r] =
       IF raw = <<>> \/ ~validateEmail(raw)
       THEN RollDone(@, "INVALID_EMAIL")
       ELSE [@ EXCEPT !.pc = "read", !.email = normalizedEmail(raw)]]
  /\ UNCHANGED <<inventory, seeded, entries, now, sweep, rel, conf, stats, patch, admin, listing, docs, idIndex, seed, express, page>>

\* after Promise.all, with the two results in rec: maybe start the cleanup
\* (Math.random() < 0.1), answer EMAIL_ALREADY_USED or NO_INVENTORY, or select
\* a prize at random; the two results are not read again after the selection
RollDecide(r, rec, cleanup, p) ==
  /\ p \in (IF rec.existing \/ rec.available = {} THEN {0} ELSE rec.available)
  /\ sweep' = IF cleanup
              THEN [sweep EXCEPT ![r] = [IdleSweep EXCEPT !.pc = "find",
                                           !.threshold = now - StaleMinutes]]
              ELSE sweep
  /\ roll' = [roll EXCEPT ![r] =
       IF rec.existing THEN RollDone(rec, "EMAIL_ALREADY_USED")
       ELSE IF rec.available = {} THEN RollDone(rec, "NO_INVENTORY")
       ELSE [IdleRoll EXCEPT !.pc = "claim", !.email = rec.email, !.prize = p]]

\* the handler waits for the other query of Promise.all
RollAwait(r, rec, cleanup, p) ==
  /\ ~cleanup
  /\ p = 0
  /\ roll' = [roll EXCEPT ![r] = rec]
  /\ sweep' = sweep

\* Promise.all, first query: the live entry of this email; the handler goes
\* on as soon as both queries have answered
RollFindExisting(r, cleanup, p) ==
  /\ roll[r].pc = "read"
  /\ ~roll[r].readExisting
  /\ LET rec == [roll[r] EXCEPT !.readExisting = TRUE,
                   !.existing = HasLiveEntry(entries, roll[r].email)] IN
       IF rec.readAvail THEN RollDecide(r, rec, cleanup, p)
                        ELSE RollAwait(r, rec, cleanup, p)
  /\ UNCHANGED <<inventory, seeded, entries, now, rel, conf, stats, patch, admin, listing, docs, idIndex, seed, express, page>>

\* Promise.all, second query: the prizes with inventory > 0
RollFindAvailable(r, cleanup, p) ==
  /\ roll[r].pc = "read"
  /\ ~roll[r].readAvail
  /\ LET rec == [roll[r] EXCEPT !.readAvail = TRUE,
                   !.available = AvailablePrizes(inventory)] IN
       IF rec.readExisting THEN RollDecide(r, rec, cleanup, p)
                           ELSE RollAwait(r, rec, cleanup, p)
  /\ UNCHANGED <<inventory, seeded, entries, now, rel, conf, stats, patch, admin, listing, docs, idIndex, seed, express, page>>

\* findOneAndUpdate({ id, inventory: { $gt: 0 } }, { $inc: { inventory: -1 } })
RollClaim(r) ==
  /\ roll[r].pc = "claim"
  /\ IF ClaimMatches(inventory, roll[r].prize)
     THEN /\ inventory' = Decrement(inventory, roll[r].prize)
          /\ roll' = [roll EXCEPT ![r].pc = "insert", ![r].attempts = @ + 1,
                                  ![r].at = now]
     ELSE /\ inventory' = inventory
          /\ roll' = [roll EXCEPT ![r].pc = "reread", ![r].attempts = @ + 1]
  /\ UNCHANGED <<seeded, entries, now, sweep, rel, conf, stats, patch, admin, listing, docs, idIndex, seed, express, page>>

\* the first claim failed: read the available prizes again, take the first
RollReread(r) ==
  /\ roll[r].pc = "reread"
  /\ roll' = [roll EXCEPT ![r] =
       IF AvailablePrizes(inventory) = {} THEN RollDone(@, "NO_INVENTORY")
       ELSE [@ EXCEPT !.pc = "retry", !.retried = TRUE,
                      !.prize = FirstPrize(AvailablePrizes(inventory))]]
  /\ UNCHANGED <<inventory, seeded, entries, now, sweep, rel, conf, stats, patch, admin, listing, docs, idIndex, seed, express, page>>

\* the retry was refused as well: there is no third attempt
RetryAgain(rec) == [rec EXCEPT !.pc = "retry"]

RetryRefused(rec) == RollDone(rec, "CONFLICT")

\* the second and last conditional decrement
RollRetryClaim(r) ==
  /\ roll[r].pc = "retry"
  /\ IF ClaimMatches(inventory, roll[r].prize)
     THEN /\ inventory' = Decrement(inventory, roll[r].prize)
          /\ roll' = [roll EXCEPT ![r].pc = "insert", ![r].attempts = @ + 1,
                                  ![r].at = now]
     ELSE /\ inventory' = inventory
          /\ roll' = [roll EXCEPT ![r] =
               RetryRefused([@ EXCEPT !.attempts = @ + 1])]
  /\ UNCHANGED <<seeded, entries, now, sweep, rel, conf, stats, patch, admin, listing, docs, idIndex, seed, express, page>>

\* insertOne(entry) and the success response
RollInsert(r) ==
  /\ roll[r].pc = "insert"
  /\ entries' = Append(entries, NewEntry(roll[r].email, roll[r].prize, roll[r].at))
  /\ roll' = [roll EXCEPT ![r] = [RollDone(@, "SUCCESS") EXCEPT
                                    !.entryId = Len(entries) + 1,
                                    !.prize = roll[r].prize]]
  /\ UNCHANGED <<inventory, seeded, now, sweep, rel, conf, stats, patch, admin, listing, docs, idIndex, seed, express, page>>

\* an awaited store call of the request throws (connection lost, timeout):
\* the catch block answers with a 500 and undoes nothing
RollThrows(r) ==
  /\ roll[r].pc \in {"read", "claim", "reread", "retry", "insert"}
  /\ roll' = [roll EXCEPT ![r] = RollDone(@, "DB_ERROR")]
  /\ UNCHANGED <<inventory, seeded, entries, now, sweep, rel, conf, stats, patch, admin, listing, docs, idIndex, seed, express, page>>

\* ------------------------------------------------------ stale-entry sweep
\* an empty result ends the cleanup at once: the loop body never runs
SweepFind(r) ==
  /\ sweep[r].pc = "find"
  /\ LET found == StaleEntries(entries, sweep[r].threshold) IN
     sweep' = [sweep EXCEPT ![r] =
       IF found = <<>> THEN IdleSweep
       ELSE [@ EXCEPT !.stale = found, !.pc = "update", !.at = now]]
  /\ UNCHANGED <<inventory, seeded, entries, now, roll, rel, conf, stats, patch, admin, listing, docs, idIndex, seed, express, page>>

\* updateOne({ _id: staleEntry._id }, { $set: { status: 'released' } })
SweepUpdate(r) ==
  /\ sweep[r].pc = "update"
  /\ entries' = SetStatus(entries, sweep[r].stale[sweep[r].i], "released", sweep[r].at)
  /\ sweep' = [sweep EXCEPT ![r].pc = "credit", ![r].at = 0]
  /\ UNCHANGED <<inventory, seeded, now, roll, rel, conf, stats, patch, admin, listing, docs, idIndex, seed, express, page>>

\* updateOne({ id: staleEntry.prizeId }, { $inc: { inventory: 1 } })
SweepCredit(r) ==
  /\ sweep[r].pc = "credit"
  /\ inventory' = Credit(inventory, entries[sweep[r].stale[sweep[r].i]].prizeId)
  /\ sweep' = [sweep EXCEPT ![r].i = @ + 1,
                            ![r].pc = IF sweep[r].i = Len(sweep[r].stale)
                                      THEN "done" ELSE "update",
                            ![r].at = IF sweep[r].i = Len(sweep[r].stale)
                                      THEN 0 ELSE now]
  /\ UNCHANGED <<seeded, entries, now, roll, rel, conf, stats, patch, admin, listing, docs, idIndex, seed, express, page>>

\* ---------------------------------------------------------------- confirm
ConfirmBegin(c, id) ==
  /\ conf[c].pc = "idle"
  /\ c > 1 => conf[c - 1].pc # "idle"
  /\ id \in EntryIds \cup {NoEntry}
  /\ conf' = [conf EXCEPT ![c].pc = "update", ![c].entryId = id, ![c].at = now]
  /\ UNCHANGED <<inventory, seeded, entries, now, roll, sweep, rel, stats, patch, admin, listing, docs, idIndex, seed, express, page>>

\* updateOne({ _id, status: 'reserved' }, { $set: { status: 'confirmed' } })
ConfirmUpdate(c) ==
  /\ conf[c].pc = "update"
  /\ IF ConfirmMatches(entries, conf[c].entryId)
     THEN /\ entries' = SetStatus(entries, conf[c].entryId, "confirmed", conf[c].at)
          /\ conf' = [conf EXCEPT ![c] =
               [Finish(@, "SUCCESS") EXCEPT !.matched = TRUE, !.at = 0]]
     ELSE /\ entries' = entries
          /\ conf' = [conf EXCEPT ![c].pc = "lookup", ![c].at = 0]
  /\ UNCHANGED <<inventory, seeded, now, roll, sweep, rel, stats, patch, admin, listing, docs, idIndex, seed, express, page>>

\* if (!existingEntry): 404, code NOT_FOUND
NotFoundAsConflict(rec) == Finish(rec, "CONFLICT")

NotFound(rec) == Finish(rec, "NOT_FOUND")

\* matchedCount === 0: findOne({ _id }) decides the answer
ConfirmLookup(c) ==
  /\ conf[c].pc = "lookup"
  /\ conf' = [conf EXCEPT ![c] =
       IF conf[c].entryId \notin EntryIds THEN NotFound(@)
       ELSE IF entries[conf[c].entryId].status = "confirmed" THEN Finish(@, "SUCCESS")
       ELSE Finish(@, "CONFLICT")]
  /\ UNCHANGED <<inventory, seeded, entries, now, roll, sweep, rel, stats, patch, admin, listing, docs, idIndex, seed, express, page>>

\* ---------------------------------------------------------------- release
ReleaseBegin(x, id) ==
  /\ rel[x].pc = "idle"
  /\ x > 1 => rel[x - 1].pc # "idle"
  /\ id \in EntryIds \cup {NoEntry}
  /\ rel' = [rel EXCEPT ![x].pc = "find", ![x].entryId = id]
  /\ UNCHANGED <<inventory, seeded, entries, now, roll, sweep, conf, stats, patch, admin, listing, docs, idIndex, seed, express, page>>

\* findOne({ _id, status: 'reserved' })
ReleaseFind(x) ==
  /\ rel[x].pc = "find"
  /\ rel' = [rel EXCEPT ![x] =
       IF ReleaseMatches(entries, rel[x].entryId)
       THEN [@ EXCEPT !.pc = "update", !.at = now,
                      !.prizeId = entries[rel[x].entryId].prizeId]
       ELSE [@ EXCEPT !.pc = "lookup"]]
  /\ UNCHANGED <<inventory, seeded, entries, now, roll, sweep, conf, stats, patch, admin, listing, docs, idIndex, seed, express, page>>

\* no reserved entry: findOne({ _id }) decides the answer
ReleaseLookup(x) ==
  /\ rel[x].pc = "lookup"
  /\ rel' = [rel EXCEPT ![x] =
       IF rel[x].entryId \notin EntryIds THEN NotFound(@)
       ELSE IF entries[rel[x].entryId].status = "released" THEN Finish(@, "ALREADY_RELEASED")
       ELSE Finish(@, "CONFLICT")]
  /\ UNCHANGED <<inventory, seeded, entries, now, roll, sweep, conf, stats, patch, admin, listing, docs, idIndex, seed, express, page>>

\* updateOne({ _id }, { $set: { status: 'released' } })
ReleaseUpdate(x) ==
  /\ rel[x].pc = "update"
  /\ entries' = SetStatus(entries, rel[x].entryId, "released", rel[x].at)
  /\ rel' = [rel EXCEPT ![x].pc = "credit", ![x].at = 0]
  /\ UNCHANGED <<inventory, seeded, now, roll, sweep, conf, stats, patch, admin, listing, docs, idIndex, seed, express, page>>

\* updateOne({ id: entry.prizeId }, { $inc: { inventory: 1 } })
ReleaseCredit(x) ==
  /\ rel[x].pc = "credit"
  /\ inventory' = Credit(inventory, rel[x].prizeId)
  /\ rel' = [rel EXCEPT ![x] = Finish(@, "RELEASED")]
  /\ UNCHANGED <<seeded, entries, now, roll, sweep, conf, stats, patch, admin, listing, docs, idIndex, seed, express, page>>

\* ------------------------------------------------------------------ stats
\* GET /api/stats arrives
StatsBegin ==
  /\ stats.pc = "idle"
  /\ stats' = [stats EXCEPT !.pc = "counts"]
  /\ UNCHANGED <<inventory, seeded, entries, now, roll, sweep, rel, conf, patch, admin, listing, docs, idIndex, seed, express, page>>

\* Promise.all: the three queries are answered in any order
StatsCountTotal ==
  /\ stats.pc = "counts"
  /\ ~stats.gotTotal
  /\ stats' = [stats EXCEPT !.gotTotal = TRUE, !.totalRolls = totalRolls(entries)]
  /\ UNCHANGED <<inventory, seeded, entries, now, roll, sweep, rel, conf, patch, admin, listing, docs, idIndex, seed, express, page>>

StatsCountCollected ==
  /\ stats.pc = "counts"
  /\ ~stats.gotCollected
  /\ stats' = [stats EXCEPT !.gotCollected = TRUE, !.collected = collected(entries)]
  /\ UNCHANGED <<inventory, seeded, entries, now, roll, sweep, rel, conf, patch, admin, listing, docs, idIndex, seed, express, page>>

StatsFindPrizes ==
  /\ stats.pc = "counts"
  /\ ~stats.gotPrizes
  /\ stats' = [stats EXCEPT !.gotPrizes = TRUE, !.prizes = inventory]
  /\ UNCHANGED <<inventory, seeded, entries, now, roll, sweep, rel, conf, patch, admin, listing, docs, idIndex, seed, express, page>>

\* the three answers are in: pending is computed, the aggregate is run and
\* the response is built from it
StatsAggregate ==
  /\ stats.pc = "counts"
  /\ stats.gotTotal /\ stats.gotCollected /\ stats.gotPrizes
  /\ stats' = [IdleStats EXCEPT
       !.pc = "done",
       !.totalRolls = stats.totalRolls,
       !.collected = stats.collected,
       !.pending = stats.totalRolls - stats.collected,
       !.prizes = stats.prizes,
       !.prizeDistribution = prizeDistribution(stats.prizes, distribution(entries))]
  /\ UNCHANGED <<inventory, seeded, entries, now, roll, sweep, rel, conf, patch, admin, listing, docs, idIndex, seed, express, page>>

\* the response was sent
StatsForget ==
  /\ stats.pc = "done"
  /\ stats' = IdleStats
  /\ UNCHANGED <<inventory, seeded, entries, now, roll, sweep, rel, conf, patch, admin, listing, docs, idIndex, seed, express, page>>

\* ------------------------------------------------- PATCH /api/entries/:id
\* the collected member of a request body: a boolean or something else
PatchBodies == {"true", "false", "none"}

\* the request arrives: a body whose collected is no boolean is refused,
\* else findOneAndUpdate is issued with updatedAt: new Date()
PatchBegin(id, body) ==
  /\ patch.pc = "idle"
  /\ patch' = IF body \in {"true", "false"}
       THEN [patch EXCEPT !.pc = "update", !.entryId = id,
                          !.collected = (body = "true"), !.at = now]
       ELSE Finish(patch, "INVALID_BODY")
  /\ UNCHANGED <<inventory, seeded, entries, now, roll, sweep, rel, conf, stats, admin, listing, docs, idIndex, seed, express, page>>

\* findOneAndUpdate({ _id }, { $set: { collected, updatedAt } })
PatchUpdate ==
  /\ patch.pc = "update"
  /\ IF patch.entryId \in 1..Len(entries)
     THEN /\ entries' = SetCollected(entries, patch.entryId, patch.collected, patch.at)
          /\ patch' = [Finish(patch, "SUCCESS") EXCEPT !.at = 0]
     ELSE /\ entries' = entries
          /\ patch' = [Finish(patch, "NOT_FOUND") EXCEPT !.at = 0]
  /\ UNCHANGED <<inventory, seeded, now, roll, sweep, rel, conf, stats, admin, listing, docs, idIndex, seed, express, page>>

\* the response was sent
PatchForget ==
  /\ patch.pc = "done"
  /\ patch' = IdlePatch
  /\ UNCHANGED <<inventory, seeded, entries, now, roll, sweep, rel, conf, stats, admin, listing, docs, idIndex, seed, express, page>>

\* the response of a confirm or release request was sent
ConfirmForget(c) ==
  /\ conf[c].pc = "done"
  /\ conf' = [conf EXCEPT ![c] = IdleConfirm]
  /\ UNCHANGED <<inventory, seeded, entries, now, roll, sweep, rel, stats, patch, admin, listing, docs, idIndex, seed, express, page>>

ReleaseForget(x) ==
  /\ rel[x].pc = "done"
  /\ rel' = [rel EXCEPT ![x] = IdleRelease]
  /\ UNCHANGED <<inventory, seeded, entries, now, roll, sweep, conf, stats, patch, admin, listing, docs, idIndex, seed, express, page>>

\* ------------------------------------------------------ GET /api/entries
ListFilters == {"all", "collected", "pending"}

\* the request arrives with its status filter (first page, no search)
ListBegin(status) ==
  /\ listing.pc = "idle"
  /\ listing' = [listing EXCEPT !.pc = "count", !.status = status]
  /\ UNCHANGED <<inventory, seeded, entries, now, roll, sweep, rel, conf, stats, patch,
                 admin, docs, idIndex, seed, express, page>>

\* countDocuments(query)
ListCount ==
  /\ listing.pc = "count"
  /\ listing' = [listing EXCEPT !.pc = "find",
       !.total = Len(ListFrom(entries, listing.status, Len(entries)))]
  /\ UNCHANGED <<inventory, seeded, entries, now, roll, sweep, rel, conf, stats, patch,
                 admin, docs, idIndex, seed, express, page>>

\* find(query).sort(...).toArray() and the response
ListFind ==
  /\ listing.pc = "find"
  /\ listing' = [Finish(listing, "SUCCESS") EXCEPT
       !.entries = ListFrom(entries, listing.status, Len(entries))]
  /\ UNCHANGED <<inventory, seeded, entries, now, roll, sweep, rel, conf, stats, patch,
                 admin, docs, idIndex, seed, express, page>>

\* the response was sent
ListForget ==
  /\ listing.pc = "done"
  /\ listing' = IdleListing
  /\ UNCHANGED <<inventory, seeded, entries, now, roll, sweep, rel, conf, stats, patch,
                 admin, docs, idIndex, seed, express, page>>

\* ---------------------------------------------------- admin: prize update
\* the inventory member of a PUT body
AdminValues == (-1)..MaxInv

\* PUT /api/prizes/:id with an inventory in its body arrives
PutBegin(p, requested) ==
  /\ admin.pc = "idle"
  /\ admin' = [admin EXCEPT !.pc = "put", !.prizeId = p, !.requested = requested,
                             !.inventory = StoredInventory(requested)]
  /\ UNCHANGED <<inventory, seeded, entries, now, roll, sweep, rel, conf, stats, patch, listing, docs, idIndex, seed, express, page>>

\* findOneAndUpdate({ id: prizeId }, { $set: updates }): the prize is set to
\* the stored value, which is the value it was last set to from now on
PutUpdate ==
  /\ admin.pc = "put"
  /\ IF admin.prizeId \in DOMAIN inventory
     THEN /\ inventory' = [inventory EXCEPT ![admin.prizeId] = admin.inventory]
          /\ seeded' = [seeded EXCEPT ![admin.prizeId] = admin.inventory]
          /\ admin' = Finish(admin, "SUCCESS")
     ELSE /\ UNCHANGED <<inventory, seeded>>
          /\ admin' = Finish(admin, "NOT_FOUND")
  /\ UNCHANGED <<entries, now, roll, sweep, rel, conf, stats, patch, listing, docs, idIndex, seed, express, page>>

\* ----------------------------------------------------- admin: prize reset
\* POST /api/prizes/reset arrives
ResetBegin ==
  /\ admin.pc = "idle"
  /\ admin' = [admin EXCEPT !.pc = "bulk", !.next = 1]
  /\ UNCHANGED <<inventory, seeded, entries, now, roll, sweep, rel, conf, stats, patch, listing, docs, idIndex, seed, express, page>>

\* bulkWrite: one upsert per default prize, in order
ResetUpsert ==
  /\ admin.pc = "bulk"
  /\ inventory' = Upsert(inventory, admin.next, DefaultInventory(admin.next))
  /\ seeded' = Upsert(seeded, admin.next, DefaultInventory(admin.next))
  /\ admin' = IF admin.next = NumPrizes
              THEN [admin EXCEPT !.pc = "find", !.next = 0]
              ELSE [admin EXCEPT !.next = @ + 1]
  /\ docs' = [docs EXCEPT ![admin.next] = IF @ = 0 THEN 1 ELSE @]
  /\ UNCHANGED <<entries, now, roll, sweep, rel, conf, stats, patch, listing, idIndex, seed, express, page>>

\* find({}).sort({ id: 1 }) and the response
ResetFind ==
  /\ admin.pc = "find"
  /\ admin' = Finish(admin, "RESET")
  /\ UNCHANGED <<inventory, seeded, entries, now, roll, sweep, rel, conf, stats, patch, listing, docs, idIndex, seed, express, page>>

\* ---------------------------------------------------------- GET /api/prizes
\* the collection accepts a document of prize id p: no unique index, or no
\* document with that id yet
Accepts(p) == ~idIndex \/ docs[p] = 0

\* countDocuments()
RECURSIVE CountUpTo(_)
CountUpTo(p) == IF p = 0 THEN 0 ELSE docs[p] + CountUpTo(p - 1)

CountDocuments == CountUpTo(NumPrizes)

\* a unique index can be built only over a collection without duplicates
Duplicates == \E p \in PrizeIds : docs[p] > 1

\* the request arrives; on a fresh function instance getDb starts
\* createIndexes and does not wait for it
SeedBegin(s, fresh) ==
  /\ seed[s].pc = "idle"
  /\ \A t \in SeedIds : t < s => seed[t].pc # "idle"
  /\ seed' = [seed EXCEPT ![s] = [@ EXCEPT !.pc = "count",
                                          !.indexes = IF fresh THEN "pending" ELSE "none"]]
  /\ UNCHANGED <<inventory, seeded, entries, now, roll, sweep, rel, conf, stats, patch, admin, listing, docs, idIndex, express, page>>

\* createIndexes: prizes.createIndex({ id: 1 }, { unique: true }); an error is
\* logged and ignored
CreateIndexes(s) ==
  /\ seed[s].indexes = "pending"
  /\ idIndex' = (idIndex \/ ~Duplicates)
  /\ seed' = [seed EXCEPT ![s].indexes = "done"]
  /\ UNCHANGED <<inventory, seeded, entries, now, roll, sweep, rel, conf, stats, patch, admin, listing, docs, express, page>>

\* const count = await collection.countDocuments(); if (count === 0) ...
SeedCount(s) ==
  /\ seed[s].pc = "count"
  /\ seed' = [seed EXCEPT ![s] = [@ EXCEPT !.count = CountDocuments,
                                          !.pc = IF CountDocuments = 0 THEN "insert" ELSE "find",
                                          !.next = IF CountDocuments = 0 THEN 1 ELSE 0]]
  /\ UNCHANGED <<inventory, seeded, entries, now, roll, sweep, rel, conf, stats, patch, admin, listing, docs, idIndex, express, page>>

\* insertMany(prizes): the documents are inserted in order, one write each;
\* a duplicate key ends the call with an error and the handler answers 500
SeedInsert(s) ==
  /\ seed[s].pc = "insert"
  /\ IF Accepts(seed[s].next)
     THEN /\ docs' = [docs EXCEPT ![seed[s].next] = @ + 1]
          /\ inventory' = Upsert(inventory, seed[s].next, DefaultInventory(seed[s].next))
          /\ seeded' = Upsert(seeded, seed[s].next, DefaultInventory(seed[s].next))
          /\ seed' = [seed EXCEPT ![s] = IF @.next = NumPrizes
                                          THEN [@ EXCEPT !.pc = "index", !.next = 0]
                                          ELSE [@ EXCEPT !.next = @ + 1]]
     ELSE /\ UNCHANGED <<inventory, seeded, docs>>
          /\ seed' = [seed EXCEPT ![s] = [Finish(@, "DB_ERROR") EXCEPT !.next = 0]]
  /\ UNCHANGED <<entries, now, roll, sweep, rel, conf, stats, patch, admin, listing, idIndex, express, page>>

\* await collection.createIndex({ id: 1 }, { unique: true })
SeedIndex(s) ==
  /\ seed[s].pc = "index"
  /\ IF Duplicates /\ ~idIndex
     THEN /\ idIndex' = idIndex
          /\ seed' = [seed EXCEPT ![s] = Finish(@, "DB_ERROR")]
     ELSE /\ idIndex' = TRUE
          /\ seed' = [seed EXCEPT ![s].pc = "find"]
  /\ UNCHANGED <<inventory, seeded, entries, now, roll, sweep, rel, conf, stats, patch, admin, listing, docs, express, page>>

\* find({}).sort({ id: 1 }) and the response
SeedFind(s) ==
  /\ seed[s].pc = "find"
  /\ seed' = [seed EXCEPT ![s] = Finish(@, "OK")]
  /\ UNCHANGED <<inventory, seeded, entries, now, roll, sweep, rel, conf, stats, patch, admin, listing, docs, idIndex, express, page>>

\* ----------------------------------------------------------- Express server
\* the status code and error code of a serverless response
Response(kind, outcome) ==
  [status |-> CASE outcome \in {"SUCCESS", "ALREADY_RELEASED"} -> 200
                [] outcome = "NOT_FOUND" -> 404
                [] outcome = "DB_ERROR" -> 500
                [] outcome = "CONFLICT" /\ kind = "roll" -> 409
                [] OTHER -> 400,
   code |-> IF outcome \in {"SUCCESS", "ALREADY_RELEASED"} THEN "none" ELSE outcome]

\* findOne({ email, status: 'confirmed' })
ExpressExisting(es, email) ==
  \E e \in 1..Len(es) : es[e].email = email /\ es[e].status = "confirmed"

\* app.post('/api/roll'): the whole handler, with p the prize selected
ExpressRollResult(ex, raw, p) ==
  IF raw = <<>> \/ ~validateEmail(raw)
  THEN [ex EXCEPT !.response = [status |-> 400, code |-> "INVALID_EMAIL"]]
  ELSE IF ExpressExisting(ex.entries, normalizedEmail(raw))
  THEN [ex EXCEPT !.response = [status |-> 400, code |-> "EMAIL_ALREADY_USED"]]
  ELSE IF AvailablePrizes(ex.inventory) = {}
  THEN [ex EXCEPT !.response = [status |-> 400, code |-> "NO_INVENTORY"]]
  ELSE IF ~(p \in DOMAIN ex.inventory /\ ex.inventory[p] > 0)
  THEN [ex EXCEPT !.response = [status |-> 409, code |-> "CONFLICT"]]
  ELSE [ex EXCEPT !.inventory = Decrement(@, p),
                  !.entries = Append(@, NewEntry(normalizedEmail(raw), p, now)),
                  !.response = [status |-> 200, code |-> "none"]]

\* app.post('/api/roll/confirm'): findOneAndUpdate({ _id, status: 'reserved' })
ExpressConfirmResult(ex, id) ==
  IF ConfirmMatches(ex.entries, id)
  THEN [ex EXCEPT !.entries = SetStatus(@, id, "confirmed", now),
                  !.response = [status |-> 200, code |-> "none"]]
  ELSE [ex EXCEPT !.response = [status |-> 404, code |-> "none"]]

\* app.post('/api/roll/release'): findOne({ _id, status: 'reserved' }), then
\* the two updates
ExpressReleaseResult(ex, id) ==
  IF ReleaseMatches(ex.entries, id)
  THEN [ex EXCEPT !.entries = SetStatus(@, id, "released", now),
                  !.inventory = Credit(@, ex.entries[id].prizeId),
                  !.response = [status |-> 200, code |-> "none"]]
  ELSE [ex EXCEPT !.response = [status |-> 404, code |-> "none"]]

\* the Express server is sent the roll request the serverless handler has
\* just answered: the same body, and the same random selection where the
\* selected prize is in stock on both sides
ExpressRoll(r, raw, p) ==
  /\ r = express.rolls + 1
  /\ roll[r].pc = "done"
  /\ IF raw = <<>> \/ ~validateEmail(raw)
     THEN roll[r].outcome = "INVALID_EMAIL"
     ELSE roll[r].outcome # "INVALID_EMAIL" /\ normalizedEmail(raw) = roll[r].email
  /\ p \in AvailablePrizes(express.inventory) \cup {0}
  /\ p = 0 <=> AvailablePrizes(express.inventory) = {}
  /\ roll[r].prize \in AvailablePrizes(express.inventory) => p = roll[r].prize
  /\ express' = [ExpressRollResult(express, raw, p) EXCEPT
                   !.rolls = r,
                   !.expected = Response("roll", roll[r].outcome)]
  /\ UNCHANGED <<inventory, seeded, entries, now, roll, sweep, rel, conf, stats, patch, admin, listing, docs, idIndex, seed, page>>

ExpressConfirm(c) ==
  /\ c = express.confirms + 1
  /\ conf[c].pc = "done"
  /\ express' = [ExpressConfirmResult(express, conf[c].entryId) EXCEPT
                   !.confirms = c,
                   !.expected = Response("confirm", conf[c].outcome)]
  /\ UNCHANGED <<inventory, seeded, entries, now, roll, sweep, rel, conf, stats, patch, admin, listing, docs, idIndex, seed, page>>

ExpressRelease(x) ==
  /\ x = express.releases + 1
  /\ rel[x].pc = "done"
  /\ express' = [ExpressReleaseResult(express, rel[x].entryId) EXCEPT
                   !.releases = x,
                   !.expected = Response("release", rel[x].outcome)]
  /\ UNCHANGED <<inventory, seeded, entries, now, roll, sweep, rel, conf, stats, patch, admin, listing, docs, idIndex, seed, page>>

\* ---------------------------------------------------------------- roll page
\* handleEmailSubmit: initiateRoll(email) is sent as roll request r
PageSubmit(r) ==
  /\ page.step = "idle"
  /\ roll[r].pc = "idle"
  /\ r > 1 => roll[r - 1].pc # "idle"
  /\ page' = [page EXCEPT !.step = "roll", !.rollReq = r]
  /\ UNCHANGED <<inventory, seeded, entries, now, roll, sweep, rel, conf, stats, patch, admin, listing, docs, idIndex, seed, express>>

\* the response of initiateRoll: on success the entry id is kept and the dice
\* starts rolling, otherwise the modal shows the error
PageRollAnswer ==
  /\ page.step = "roll"
  /\ roll[page.rollReq].pc = "done"
  /\ page' = IF roll[page.rollReq].outcome = "SUCCESS"
             THEN [page EXCEPT !.diceState = "rolling", !.step = "dice", !.rollReq = 0,
                               !.currentEntryId = roll[page.rollReq].entryId]
             ELSE IdlePage
  /\ UNCHANGED <<inventory, seeded, entries, now, roll, sweep, rel, conf, stats, patch, admin, listing, docs, idIndex, seed, express>>

\* handleRollComplete: the dice has landed
PageRollComplete ==
  /\ page.diceState = "rolling"
  /\ page' = [page EXCEPT !.diceState = "settled"]
  /\ UNCHANGED <<inventory, seeded, entries, now, roll, sweep, rel, conf, stats, patch, admin, listing, docs, idIndex, seed, express>>

\* the safety timeout: after 10 seconds of rolling the completion is forced
PageRollTimeout ==
  /\ page.diceState = "rolling"
  /\ page' = [page EXCEPT !.diceState = "settled", !.forced = TRUE]
  /\ UNCHANGED <<inventory, seeded, entries, now, roll, sweep, rel, conf, stats, patch, admin, listing, docs, idIndex, seed, express>>

\* setTimeout(() => setDiceState("camera-focus"), 500)
PageCameraFocus ==
  /\ page.diceState = "settled"
  /\ page' = [page EXCEPT !.diceState = "camera-focus"]
  /\ UNCHANGED <<inventory, seeded, entries, now, roll, sweep, rel, conf, stats, patch, admin, listing, docs, idIndex, seed, express>>

\* handleCameraFocusComplete: confirmRoll(entryId) is sent as confirm request c
PageCameraFocusComplete(c) ==
  /\ page.diceState = "camera-focus"
  /\ page.step = "dice"
  /\ conf[c].pc = "idle"
  /\ c > 1 => conf[c - 1].pc # "idle"
  /\ page' = [page EXCEPT !.step = "confirm", !.confReq = c]
  /\ UNCHANGED <<inventory, seeded, entries, now, roll, sweep, rel, conf, stats, patch, admin, listing, docs, idIndex, seed, express>>

\* await confirmRoll(entryId) returns, whatever the answer says
PageConfirmAnswer ==
  /\ page.step = "confirm"
  /\ conf[page.confReq].pc = "done"
  /\ page' = [page EXCEPT !.step = "splash", !.confReq = 0]
  /\ UNCHANGED <<inventory, seeded, entries, now, roll, sweep, rel, conf, stats, patch, admin, listing, docs, idIndex, seed, express>>

\* await confirmRoll(entryId) throws before the request has reached the
\* server: the error is logged and the prize is still shown
PageConfirmThrows ==
  /\ page.step = "confirm"
  /\ conf[page.confReq].pc = "idle"
  /\ page' = [page EXCEPT !.step = "splash", !.confReq = 0]
  /\ UNCHANGED <<inventory, seeded, entries, now, roll, sweep, rel, conf, stats, patch, admin, listing, docs, idIndex, seed, express>>

\* setTimeout(() => setDiceState("showing-splash"), 300)
PageSplash ==
  /\ page.step = "splash"
  /\ page' = [page EXCEPT !.diceState = "showing-splash", !.step = "shown"]
  /\ UNCHANGED <<inventory, seeded, entries, now, roll, sweep, rel, conf, stats, patch, admin, listing, docs, idIndex, seed, express>>

\* handleSplashClose
PageSplashClose ==
  /\ page.diceState = "showing-splash"
  /\ page' = IdlePage
  /\ UNCHANGED <<inventory, seeded, entries, now, roll, sweep, rel, conf, stats, patch, admin, listing, docs, idIndex, seed, express>>

\* ------------------------------------------------------------------ clock
Tick ==
  /\ now + TickMinutes <= MaxClock
  /\ now' = now + TickMinutes
  /\ UNCHANGED <<inventory, seeded, entries, roll, sweep, rel, conf, stats, patch, admin, listing, docs, idIndex, seed, express, page>>

\* --------------------------------------------------------- specifications
\* one more request may arrive
Arrives == Started < MaxRequests

RollSteps ==
  \/ \E r \in RollIds : \E cleanup \in BOOLEAN : \E p \in PrizeIds \cup {0} :
       RollFindExisting(r, cleanup, p)
  \/ \E r \in RollIds : \E cleanup \in BOOLEAN : \E p \in PrizeIds \cup {0} :
       RollFindAvailable(r, cleanup, p)
  \/ \E r \in RollIds : RollClaim(r)
  \/ \E r \in RollIds : RollReread(r)
  \/ \E r \in RollIds : RollRetryClaim(r)
  \/ \E r \in RollIds : RollInsert(r)

SweepSteps ==
  \/ \E r \in RollIds : SweepFind(r)
  \/ \E r \in RollIds : SweepUpdate(r)
  \/ \E r \in RollIds : SweepCredit(r)

ConfirmSteps ==
  \/ \E c \in ConfirmIds : ConfirmUpdate(c)
  \/ \E c \in ConfirmIds : ConfirmLookup(c)

ReleaseSteps ==
  \/ \E x \in ReleaseIds : ReleaseFind(x)
  \/ \E x \in ReleaseIds : ReleaseLookup(x)
  \/ \E x \in ReleaseIds : ReleaseUpdate(x)
  \/ \E x \in ReleaseIds : ReleaseCredit(x)

\* any number of requests, interleaved at every store access
Next ==
  \/ \E r \in RollIds : \E raw \in RawEmails : Arrives /\ RollBegin(r, raw)
  \/ RollSteps
  \/ SweepSteps
  \/ \E c \in ConfirmIds : \E id \in 0..Len(entries) : Arrives /\ ConfirmBegin(c, id)
  \/ ConfirmSteps
  \/ \E x \in ReleaseIds : \E id \in 0..Len(entries) : Arrives /\ ReleaseBegin(x, id)
  \/ ReleaseSteps
  \/ Tick

Spec == Init /\ [][Next]_vars

\* Only roll requests, on a freshly seeded store, and no cleanup: every roll
\* draws Math.random() >= 0.1, so the allocation itself (the reads, the claim,
\* the retry and the insert) is all that runs.
NextRolls ==
  \/ \E r \in RollIds : \E raw \in RawEmails : Arrives /\ RollBegin(r, raw)
  \/ \E r \in RollIds : \E p \in PrizeIds \cup {0} : RollFindExisting(r, FALSE, p)
  \/ \E r \in RollIds : \E p \in PrizeIds \cup {0} : RollFindAvailable(r, FALSE, p)
  \/ \E r \in RollIds : RollClaim(r)
  \/ \E r \in RollIds : RollReread(r)
  \/ \E r \in RollIds : RollRetryClaim(r)
  \/ \E r \in RollIds : RollInsert(r)

SpecRolls == InitFresh /\ [][NextRolls]_vars

\* no request and no cleanup is in flight
Quiet ==
  /\ \A r \in RollIds : roll[r].pc \in {"idle", "done"}
  /\ \A r \in RollIds : sweep[r].pc \in {"none", "done"}
  /\ \A x \in ReleaseIds : rel[x].pc \in {"idle", "done"}
  /\ \A c \in ConfirmIds : conf[c].pc \in {"idle", "done"}

CleanupIdle(r) == sweep[r].pc \in {"none", "done"}

\* The race for the last units: MaxRolls roll requests on a freshly seeded
\* store, no cleanup started, interleaved at every store access.
NextRace ==
  \/ \E r \in RollIds : \E raw \in RawEmails : RollBegin(r, raw)
  \/ \E r \in RollIds : \E p \in PrizeIds \cup {0} : RollFindExisting(r, FALSE, p)
  \/ \E r \in RollIds : \E p \in PrizeIds \cup {0} : RollFindAvailable(r, FALSE, p)
  \/ \E r \in RollIds : RollClaim(r)
  \/ \E r \in RollIds : RollReread(r)
  \/ \E r \in RollIds : RollRetryClaim(r)
  \/ \E r \in RollIds : RollInsert(r)

SpecRace == InitFresh /\ [][NextRace]_vars

\* a request that has arrived is served: each store call it awaits returns
RollProgress(r) ==
  \/ \E p \in PrizeIds \cup {0} : RollFindExisting(r, FALSE, p)
  \/ \E p \in PrizeIds \cup {0} : RollFindAvailable(r, FALSE, p)
  \/ RollClaim(r)
  \/ RollReread(r)
  \/ RollRetryClaim(r)
  \/ RollInsert(r)

SpecRaceFair == SpecRace /\ \A r \in RollIds : WF_vars(RollProgress(r))

\* One request at a time: a request arrives only when the store is quiet, and
\* a roll goes on to its claim once the cleanup it started has finished. The
\* first claim of a roll then always succeeds, so the retry path is absent.
NextSeq ==
  \/ \E r \in RollIds : \E raw \in RawEmails : Arrives /\ Quiet /\ RollBegin(r, raw)
  \/ \E r \in RollIds : \E cleanup \in BOOLEAN : \E p \in PrizeIds \cup {0} :
       RollFindExisting(r, cleanup, p)
  \/ \E r \in RollIds : \E cleanup \in BOOLEAN : \E p \in PrizeIds \cup {0} :
       RollFindAvailable(r, cleanup, p)
  \/ \E r \in RollIds : CleanupIdle(r) /\ RollClaim(r)
  \/ \E r \in RollIds : CleanupIdle(r) /\ RollInsert(r)
  \/ SweepSteps
  \/ \E c \in ConfirmIds : \E id \in 0..Len(entries) : Arrives /\ Quiet /\ ConfirmBegin(c, id)
  \/ ConfirmSteps
  \/ \E x \in ReleaseIds : \E id \in 0..Len(entries) : Arrives /\ Quiet /\ ReleaseBegin(x, id)
  \/ ReleaseSteps
  \/ Quiet /\ Tick

SpecSeq == Init /\ [][NextSeq]_vars

\* the entry ids that roll responses have handed to their clients
AnsweredEntryIds ==
  {roll[r].entryId : r \in {q \in RollIds : roll[q].outcome = "SUCCESS"}}

\* The two-caller scenario: roll requests race on a freshly seeded store with
\* no cleanup started, and a client that was answered success confirms the
\* entry id of its response.
NextScenario ==
  \/ \E r \in RollIds : \E raw \in RawEmails : Arrives /\ RollBegin(r, raw)
  \/ \E r \in RollIds : \E p \in PrizeIds \cup {0} : RollFindExisting(r, FALSE, p)
  \/ \E r \in RollIds : \E p \in PrizeIds \cup {0} : RollFindAvailable(r, FALSE, p)
  \/ \E r \in RollIds : RollClaim(r)
  \/ \E r \in RollIds : RollReread(r)
  \/ \E r \in RollIds : RollRetryClaim(r)
  \/ \E r \in RollIds : RollInsert(r)
  \/ \E c \in ConfirmIds : \E id \in AnsweredEntryIds : ConfirmBegin(c, id)
  \/ ConfirmSteps

SpecScenario == InitFresh /\ [][NextScenario]_vars

\* the answer was sent and the cleanup the request started has ended: the
\* process keeps nothing of the request
RollForget(r) ==
  /\ roll[r].pc = "done"
  /\ sweep[r].pc \in {"none", "done"}
  /\ roll' = [roll EXCEPT ![r] = IdleRoll]
  /\ sweep' = [sweep EXCEPT ![r] = IdleSweep]
  /\ UNCHANGED <<inventory, seeded, entries, now, rel, conf, stats, patch, admin, listing, docs, idIndex, seed, express, page>>

\* nothing is kept of the requests served so far
Forgotten ==
  /\ \A r \in RollIds : roll[r].pc = "idle"
  /\ \A r \in RollIds : sweep[r].pc = "none"

\* a roll request with a well-formed email arrives
ValidRollArrives ==
  \E r \in RollIds : \E raw \in RawEmails :
    validateEmail(raw) /\ Forgotten /\ RollBegin(r, raw)

\* Math.random() < 0.1: the request starts the cleanup
CleanupStarts ==
  \E r \in RollIds : \E p \in PrizeIds \cup {0} :
    RollFindExisting(r, TRUE, p) \/ RollFindAvailable(r, TRUE, p)

\* the store calls of a roll request that is served alone: its first claim
\* is never refused
RollAloneSteps ==
  \/ \E r \in RollIds : \E cleanup \in BOOLEAN : \E p \in PrizeIds \cup {0} :
       RollFindExisting(r, cleanup, p)
  \/ \E r \in RollIds : \E cleanup \in BOOLEAN : \E p \in PrizeIds \cup {0} :
       RollFindAvailable(r, cleanup, p)
  \/ \E r \in RollIds : RollClaim(r)
  \/ \E r \in RollIds : RollInsert(r)

\* Roll requests that keep arriving, one after the other, each with the
\* cleanup it may start running in its background. Every awaited store call
\* returns (weak fairness on the steps of requests and cleanups); requests
\* with a well-formed email keep arriving and the random trigger of the
\* cleanup fires again and again (strong fairness).
NextLive ==
  \/ \E r \in RollIds : \E raw \in RawEmails : Forgotten /\ RollBegin(r, raw)
  \/ RollAloneSteps
  \/ SweepSteps
  \/ \E r \in RollIds : RollForget(r)
  \/ Tick

SpecLive ==
  /\ Init
  /\ [][NextLive]_vars
  /\ WF_vars(RollAloneSteps)
  /\ WF_vars(SweepSteps)
  /\ WF_vars(\E r \in RollIds : RollForget(r))
  /\ SF_vars(ValidRollArrives)
  /\ SF_vars(CleanupStarts)

\* nothing is kept of the roll, confirm and release requests served so far
AllForgotten ==
  /\ Forgotten
  /\ \A c \in ConfirmIds : conf[c].pc = "idle"
  /\ \A x \in ReleaseIds : rel[x].pc = "idle"

\* A roll, confirm or release request arrives once the one before it was
\* served; the store holds at most MaxEntries entries.
ParticipantArrives ==
  \/ \E r \in RollIds : \E raw \in RawEmails :
       Len(entries) < MaxEntries /\ RollBegin(r, raw)
  \/ \E c \in ConfirmIds : \E id \in 0..Len(entries) : ConfirmBegin(c, id)
  \/ \E x \in ReleaseIds : \E id \in 0..Len(entries) : ReleaseBegin(x, id)

\* the store calls of these requests (no cleanup started) and their ends
ParticipantSteps ==
  \/ \E r \in RollIds : \E p \in PrizeIds \cup {0} : RollFindExisting(r, FALSE, p)
  \/ \E r \in RollIds : \E p \in PrizeIds \cup {0} : RollFindAvailable(r, FALSE, p)
  \/ \E r \in RollIds : RollClaim(r)
  \/ \E r \in RollIds : RollInsert(r)
  \/ \E r \in RollIds : RollForget(r)
  \/ ConfirmSteps
  \/ \E c \in ConfirmIds : ConfirmForget(c)
  \/ ReleaseSteps
  \/ \E x \in ReleaseIds : ReleaseForget(x)

\* what the admin dashboard sends: collected-flag updates and stats requests
PatchArrives ==
  \E id \in 0..Len(entries) : \E body \in PatchBodies : PatchBegin(id, body)

PatchSteps ==
  \/ PatchUpdate
  \/ PatchForget

StatsSteps ==
  \/ StatsCountTotal
  \/ StatsCountCollected
  \/ StatsFindPrizes
  \/ StatsAggregate
  \/ StatsForget

\* no request that writes to the store is being served
WritersAtRest == AllForgotten /\ patch.pc = "idle"

\* The dashboard's stats request next to roll and confirm requests, which
\* are served one at a time: the queries of the stats request interleave with
\* the store calls of these at every point. A roll or confirm request arrives
\* once the response of an earlier stats request was sent.
NextStats ==
  \/ \E r \in RollIds : \E raw \in RawEmails :
       /\ AllForgotten /\ stats.pc # "done" /\ Len(entries) < MaxEntries
       /\ RollBegin(r, raw)
  \/ \E r \in RollIds : \E p \in PrizeIds \cup {0} : RollFindExisting(r, FALSE, p)
  \/ \E r \in RollIds : \E p \in PrizeIds \cup {0} : RollFindAvailable(r, FALSE, p)
  \/ \E r \in RollIds : RollClaim(r)
  \/ \E r \in RollIds : RollInsert(r)
  \/ \E r \in RollIds : RollForget(r)
  \/ \E c \in ConfirmIds : \E id \in 0..Len(entries) :
       AllForgotten /\ stats.pc # "done" /\ ConfirmBegin(c, id)
  \/ ConfirmSteps
  \/ \E c \in ConfirmIds : ConfirmForget(c)
  \/ StatsBegin
  \/ StatsSteps

SpecStats == InitFresh /\ [][NextStats]_vars

\* A stats request is served only while no other request is, and no other
\* request is served while a stats request is.
NextStatsQuiet ==
  \/ WritersAtRest /\ stats.pc = "idle" /\ ParticipantArrives
  \/ ParticipantSteps
  \/ WritersAtRest /\ stats.pc = "idle" /\ PatchArrives
  \/ PatchSteps
  \/ WritersAtRest /\ StatsBegin
  \/ StatsSteps

SpecStatsQuiet == InitFresh /\ [][NextStatsQuiet]_vars

\* The race for the last units over a store whose calls may fail.
NextFaults ==
  \/ NextRace
  \/ \E r \in RollIds : RollThrows(r)

SpecFaults == InitFresh /\ [][NextFaults]_vars

\* the dashboard waits for no response
DashboardIdle == patch.pc = "idle" /\ stats.pc = "idle" /\ listing.pc = "idle"

\* The dashboard's requests (stats, entries listing, collected-flag update),
\* one at a time, interleaved at every store access with roll, confirm and
\* release requests that are served one after the other.
NextFrame ==
  \/ \E r \in RollIds : \E raw \in RawEmails : Arrives /\ Quiet /\ RollBegin(r, raw)
  \/ \E r \in RollIds : \E p \in PrizeIds \cup {0} : RollFindExisting(r, FALSE, p)
  \/ \E r \in RollIds : \E p \in PrizeIds \cup {0} : RollFindAvailable(r, FALSE, p)
  \/ \E r \in RollIds : RollClaim(r)
  \/ \E r \in RollIds : RollInsert(r)
  \/ \E c \in ConfirmIds : \E id \in 0..Len(entries) : Arrives /\ Quiet /\ ConfirmBegin(c, id)
  \/ ConfirmSteps
  \/ \E x \in ReleaseIds : \E id \in 0..Len(entries) : Arrives /\ Quiet /\ ReleaseBegin(x, id)
  \/ ReleaseSteps
  \/ DashboardIdle /\ PatchArrives
  \/ PatchSteps
  \/ DashboardIdle /\ StatsBegin
  \/ StatsSteps
  \/ \E status \in ListFilters : DashboardIdle /\ ListBegin(status)
  \/ ListCount
  \/ ListFind
  \/ ListForget

SpecFrame == Init /\ [][NextFrame]_vars

\* no admin request is being served
AdminAtRest == admin.pc \in {"idle", "done"}

\* one more request may arrive, the admin request counted with the others
ArrivesAdmin ==
  /\ Started + (IF admin.pc = "idle" THEN 0 ELSE 1) < MaxRequests
  /\ Quiet
  /\ AdminAtRest

\* The admin's prize update and reset next to roll, confirm and release
\* requests, one request at a time and no cleanup started.
NextAdmin ==
  \/ \E r \in RollIds : \E raw \in RawEmails : ArrivesAdmin /\ RollBegin(r, raw)
  \/ \E r \in RollIds : \E p \in PrizeIds \cup {0} : RollFindExisting(r, FALSE, p)
  \/ \E r \in RollIds : \E p \in PrizeIds \cup {0} : RollFindAvailable(r, FALSE, p)
  \/ \E r \in RollIds : RollClaim(r)
  \/ \E r \in RollIds : RollInsert(r)
  \/ \E c \in ConfirmIds : \E id \in 0..Len(entries) : ArrivesAdmin /\ ConfirmBegin(c, id)
  \/ ConfirmSteps
  \/ \E x \in ReleaseIds : \E id \in 0..Len(entries) : ArrivesAdmin /\ ReleaseBegin(x, id)
  \/ ReleaseSteps
  \/ \E p \in PrizeIds : \E requested \in AdminValues :
       ArrivesAdmin /\ PutBegin(p, requested)
  \/ PutUpdate
  \/ ArrivesAdmin /\ ResetBegin
  \/ ResetUpsert
  \/ ResetFind

SpecAdmin == Init /\ [][NextAdmin]_vars

\* one more request may arrive, the dashboard's PATCH counted with the others
ArrivesTimed == Started + (IF patch.pc = "idle" THEN 0 ELSE 1) < MaxRequests

\* Every request that writes an entry, the collected-flag update included,
\* interleaved at every store access while the clock advances.
NextTimed ==
  \/ \E r \in RollIds : \E raw \in RawEmails : ArrivesTimed /\ RollBegin(r, raw)
  \/ RollSteps
  \/ SweepSteps
  \/ \E c \in ConfirmIds : \E id \in 0..Len(entries) : ArrivesTimed /\ ConfirmBegin(c, id)
  \/ ConfirmSteps
  \/ \E x \in ReleaseIds : \E id \in 0..Len(entries) : ArrivesTimed /\ ReleaseBegin(x, id)
  \/ ReleaseSteps
  \/ ArrivesTimed /\ PatchArrives
  \/ PatchUpdate
  \/ Tick

SpecTimed == Init /\ [][NextTimed]_vars

\* ---------------------------------------------------------------------------
\* The same sequence of requests sent to both servers, each on its own copy of
\* the store: the serverless handlers serve one request at a time, and every
\* answered request is sent to the Express server before the next one arrives.
AllMirrored ==
  /\ express.rolls = Cardinality({r \in RollIds : roll[r].pc = "done"})
  /\ express.confirms = Cardinality({c \in ConfirmIds : conf[c].pc = "done"})
  /\ express.releases = Cardinality({x \in ReleaseIds : rel[x].pc = "done"})

NextExpress ==
  \/ AllMirrored /\ NextSeq
  \/ \E r \in RollIds : \E raw \in RawEmails : \E p \in PrizeIds \cup {0} :
       ExpressRoll(r, raw, p)
  \/ \E c \in ConfirmIds : ExpressConfirm(c)
  \/ \E x \in ReleaseIds : ExpressRelease(x)

SpecExpress == Init /\ [][NextExpress]_vars

\* ---------------------------------------------------------------------------
\* One roll page next to other participants: the server handles one request
\* at a time, the page sends its roll and its confirm, other participants
\* send rolls, and the clock moves while the page animates.
\* the page's roll, another participant's roll and the page's confirm
ArrivesPage == Started < MaxRolls

NextPage ==
  \/ \E r \in RollIds : PageSubmit(r)
  \/ \E r \in RollIds : \E raw \in RawEmails :
       ArrivesPage /\ Quiet /\ page.rollReq = r /\ RollBegin(r, raw)
  \/ \E r \in RollIds : \E raw \in RawEmails :
       ArrivesPage /\ Quiet /\ page.rollReq = 0 /\ RollBegin(r, raw)
  \/ \E r \in RollIds : \E cleanup \in BOOLEAN : \E p \in PrizeIds \cup {0} :
       RollFindExisting(r, cleanup, p)
  \/ \E r \in RollIds : \E cleanup \in BOOLEAN : \E p \in PrizeIds \cup {0} :
       RollFindAvailable(r, cleanup, p)
  \/ \E r \in RollIds : CleanupIdle(r) /\ RollClaim(r)
  \/ \E r \in RollIds : CleanupIdle(r) /\ RollInsert(r)
  \/ SweepSteps
  \/ PageRollAnswer
  \/ PageRollComplete
  \/ PageRollTimeout
  \/ PageCameraFocus
  \/ \E c \in ConfirmIds : PageCameraFocusComplete(c)
  \/ \E c \in ConfirmIds :
       ArrivesPage /\ Quiet /\ page.confReq = c /\ ConfirmBegin(c, page.currentEntryId)
  \/ ConfirmSteps
  \/ PageConfirmAnswer
  \/ PageConfirmThrows
  \/ PageSplash
  \/ PageSplashClose
  \/ Quiet /\ Tick

SpecPage == InitFresh /\ [][NextPage]_vars

\* ---------------------------------------------------------------------------
\* GET /api/prizes requests against a collection that is still empty and has
\* no index yet
InitEmpty ==
  /\ inventory = [p \in {} |-> 0]
  /\ seeded = inventory
  /\ entries = <<>>
  /\ docs = [p \in PrizeIds |-> 0]
  /\ idIndex = FALSE
  /\ NoRequests

NextSeed ==
  \/ \E s \in SeedIds, fresh \in BOOLEAN : SeedBegin(s, fresh)
  \/ \E s \in SeedIds : CreateIndexes(s)
  \/ \E s \in SeedIds : SeedCount(s)
  \/ \E s \in SeedIds : SeedInsert(s)
  \/ \E s \in SeedIds : SeedIndex(s)
  \/ \E s \in SeedIds : SeedFind(s)

SpecSeed == InitEmpty /\ [][NextSeed]_vars

\* ----------------------------------------------------------------- claims
\* entries of prize p that hold a unit: status reserved or confirmed
Live(es, p) ==
  Cardinality({e \in 1..Len(es) : es[e].prizeId = p /\ es[e].status \in LiveStatuses})

RollsFinished ==
  /\ \A r \in RollIds : roll[r].pc \in {"idle", "done"}
  /\ \A r \in RollIds : sweep[r].pc \in {"none", "done"}

\* N: the roll requests that arrived
RollsArrived == {r \in RollIds : roll[r].pc # "idle"}

\* the roll requests answered with success and prize p
Successes(p) ==
  {r \in RollIds : roll[r].pc = "done" /\ roll[r].outcome = "SUCCESS" /\ roll[r].prize = p}

Min(a, b) == IF a <= b THEN a ELSE b

\* C1: in every reachable state, under any interleaving of roll, confirm,
\* release and sweep requests, the inventory of every prize is >= 0.
C1_InventoryNonNegative ==
  \A p \in DOMAIN inventory : inventory[p] >= 0

\* a roll's conditional decrement was refused on a prize whose inventory is 0
C1_Witness ==
  \E r \in RollIds :
    /\ roll[r].pc = "reread"
    /\ inventory[roll[r].prize] = 0

\* C2: for every prize p, in every reachable state (the states between the
\* store writes of an in-flight request included), the number of entries of
\* p with status reserved or confirmed plus the inventory of p equals the
\* inventory p was seeded with.
C2_Conservation ==
  \A p \in DOMAIN inventory : Live(entries, p) + inventory[p] = seeded[p]

\* the same law at the states where no request is in flight
ConservationAtRest == Quiet => C2_Conservation

\* C3: for a prize with initial inventory I and N concurrent roll requests,
\* once all requests have finished: successes <= min(N, I), the final
\* inventory is I - successes, and the entries created for the prize are as
\* many as the successes.
C3_ConcurrentRolls ==
  RollsFinished =>
    \A p \in DOMAIN inventory :
      /\ Cardinality(Successes(p)) <= Min(Cardinality(RollsArrived), seeded[p])
      /\ inventory[p] = seeded[p] - Cardinality(Successes(p))
      /\ Cardinality({e \in EntryIds : entries[e].prizeId = p})
           = Cardinality(Successes(p))

\* two requests raced for a prize seeded with one unit: one won, one lost
C3_Witness ==
  /\ RollsFinished
  /\ Cardinality(RollsArrived) = 2
  /\ \E p \in DOMAIN inventory :
       /\ seeded[p] = 1
       /\ Cardinality(Successes(p)) = 1
       /\ inventory[p] = 0
       /\ \E r \in RollIds : roll[r].pc = "done" /\ roll[r].retried

DistinctValidEmails ==
  /\ \A r \in RollsArrived : roll[r].outcome # "INVALID_EMAIL"
  /\ \A r1 \in RollsArrived : \A r2 \in RollsArrived :
       r1 # r2 => roll[r1].email # roll[r2].email

\* C4: for a pool whose only prize has initial inventory I, and N concurrent
\* roll requests with pairwise distinct valid emails and no release or sweep
\* running, exactly min(N, I) requests claim the prize.
C4_ExactlyMin ==
  (RollsFinished /\ DistinctValidEmails /\ Cardinality(DOMAIN inventory) = 1) =>
    \A p \in DOMAIN inventory :
      Cardinality(Successes(p)) = Min(Cardinality(RollsArrived), seeded[p])

\* a single-prize pool with one unit, two requests with distinct emails, one
\* of them answered NO_INVENTORY
C4_Witness ==
  /\ RollsFinished
  /\ DistinctValidEmails
  /\ Cardinality(RollsArrived) = 2
  /\ \E p \in DOMAIN inventory :
       /\ DOMAIN inventory = {p}
       /\ seeded[p] = 1
       /\ Cardinality(Successes(p)) = 1
  /\ \E r \in RollIds : roll[r].outcome = "NO_INVENTORY"

\* C5: the status of an entry only ever changes from reserved to confirmed
\* or from reserved to released: under any interleaving of confirm, release
\* and sweep requests a confirmed entry stays confirmed and a released entry
\* stays released.
C5_TerminalStatuses ==
  [][\A e \in EntryIds :
       /\ entries[e].status = "confirmed" => entries'[e].status = "confirmed"
       /\ entries[e].status = "released" => entries'[e].status = "released"]_vars

\* the release requests that moved entry e to released and credited its prize
ReleaseCredits(e) ==
  {x \in ReleaseIds : rel[x].pc = "done" /\ rel[x].outcome = "RELEASED" /\ rel[x].entryId = e}

\* the cleanups that moved entry e to released and credited its prize
SweepCredits(e) ==
  {r \in RollIds : \E k \in 1..Len(sweep[r].stale) :
     k < sweep[r].i /\ sweep[r].stale[k] = e}

\* C6: when two or more release requests for the same reserved entry run
\* concurrently, only one of them performs the transition and the prize's
\* inventory is incremented exactly once in total.
C6_ReleaseOnce ==
  \A e \in EntryIds : Cardinality(ReleaseCredits(e)) <= 1

\* C7: when the sweep runs concurrently in several roll requests, or
\* concurrently with an explicit release of the same entry, each stale
\* reserved entry is released once and its prize credited exactly once.
C7_SweepOnce ==
  \A e \in EntryIds :
    SweepCredits(e) # {} =>
      Cardinality(SweepCredits(e)) + Cardinality(ReleaseCredits(e)) <= 1

\* C8: in every reachable state, under any interleaving of roll requests,
\* each normalized email owns at most one entry with status reserved or
\* confirmed.
C8_OneLiveEntryPerEmail ==
  \A e1 \in EntryIds : \A e2 \in EntryIds :
    (/\ e1 # e2
     /\ entries[e1].email = entries[e2].email
     /\ entries[e1].status \in LiveStatuses)
      => entries[e2].status \notin LiveStatuses

\* entries other than e are the same in the next state
OthersKept(e) ==
  /\ Len(entries') = Len(entries)
  /\ \A f \in EntryIds : f # e => entries'[f] = entries[f]

\* the credit of entry e's prize: that inventory rises by exactly 1 to what
\* it was before e's reservation (the seeded value less the units other
\* entries hold); no other inventory and no entry changes
CreditEffect(e) ==
  LET p == entries[e].prizeId IN
  /\ entries[e].status = "released"
  /\ entries' = entries
  /\ inventory'[p] = inventory[p] + 1
  /\ inventory'[p] = seeded[p] - Live(entries, p)
  /\ \A q \in DOMAIN inventory : q # p => inventory'[q] = inventory[q]

\* the status write of a release of entry e
StatusEffect(e) ==
  /\ entries[e].status = "reserved"
  /\ entries'[e].status = "released"
  /\ OthersKept(e)
  /\ inventory' = inventory

\* C9: releasing a reserved entry (by explicit release or by the sweep), with
\* no other operation interleaved, sets its status to released and increases
\* the inventory of its prize by exactly 1, restoring it to its value before
\* the reservation; no other prize's inventory changes.
C9_ReleaseRestores ==
  [][/\ \A x \in ReleaseIds :
          /\ (rel[x].pc = "update" /\ rel'[x].pc = "credit")
               => StatusEffect(rel[x].entryId)
          /\ (rel[x].pc = "credit" /\ rel'[x].pc = "done")
               => CreditEffect(rel[x].entryId)
     /\ \A r \in RollIds :
          /\ (sweep[r].pc = "update" /\ sweep'[r].pc = "credit")
               => StatusEffect(sweep[r].stale[sweep[r].i])
          /\ (sweep[r].pc = "credit" /\ sweep'[r].i = sweep[r].i + 1)
               => CreditEffect(sweep[r].stale[sweep[r].i])]_vars

\* an explicit release and a cleanup have each released an entry and credited
\* its prize
C9_Witness ==
  /\ \E x \in ReleaseIds :
       /\ rel[x].outcome = "RELEASED"
       /\ entries[rel[x].entryId].status = "released"
  /\ \E r \in RollIds : sweep[r].pc = "done" /\ sweep[r].i > 1

\* the update or the lookup of confirm request c
ConfirmEffect(c) ==
  LET e == conf[c].entryId IN
  /\ (conf[c].pc = "update" /\ conf'[c].pc # "update") =>
       IF e \in EntryIds /\ entries[e].status = "reserved"
       THEN /\ entries'[e].status = "confirmed"
            /\ OthersKept(e)
            /\ inventory' = inventory
            /\ conf'[c].pc = "done" /\ conf'[c].outcome = "SUCCESS"
       ELSE /\ entries' = entries
            /\ inventory' = inventory
  /\ (conf[c].pc = "lookup" /\ conf'[c].pc = "done") =>
       /\ entries' = entries
       /\ inventory' = inventory
       /\ (e \in EntryIds /\ entries[e].status = "confirmed")
            => conf'[c].outcome = "SUCCESS"

\* C10: confirm on a reserved entry sets its status to confirmed; confirm on
\* an already confirmed entry reports success and changes neither the
\* entry's status nor any inventory, so confirming twice is confirming once:
\* every answered confirm of an existing entry reported success exactly when
\* the entry is confirmed.
C10_ConfirmIdempotent ==
  /\ [][\A c \in ConfirmIds : ConfirmEffect(c)]_vars
  /\ [](\A c \in ConfirmIds :
          (conf[c].pc = "done" /\ conf[c].entryId \in EntryIds) =>
            (conf[c].outcome = "SUCCESS"
               <=> entries[conf[c].entryId].status = "confirmed"))

\* the same entry was confirmed twice: once by the update, once found
\* already confirmed, both answered with success
C10_Witness ==
  \E c1 \in ConfirmIds : \E c2 \in ConfirmIds :
    /\ conf[c1].pc = "done" /\ conf[c1].matched /\ conf[c1].outcome = "SUCCESS"
    /\ conf[c2].pc = "done" /\ ~conf[c2].matched /\ conf[c2].outcome = "SUCCESS"
    /\ conf[c1].entryId = conf[c2].entryId
    /\ entries[conf[c1].entryId].status = "confirmed"

\* the store is the same in the next state
StoreKept == entries' = entries /\ inventory' = inventory

\* the steps of release request x on an entry that is released: the first
\* query misses, the second answers success; neither writes
ReleaseOfReleased(x) ==
  LET e == rel[x].entryId IN
  (e \in EntryIds /\ entries[e].status = "released") =>
    /\ (rel[x].pc = "find" /\ rel'[x].pc # "find")
         => (rel'[x].pc = "lookup" /\ StoreKept)
    /\ (rel[x].pc = "lookup" /\ rel'[x].pc # "lookup")
         => (rel'[x].pc = "done" /\ rel'[x].outcome = "ALREADY_RELEASED" /\ StoreKept)

\* C11: release on an entry that is already released reports success without
\* changing the entry and without incrementing any inventory, so a second
\* release credits nothing; a release answered "already released" leaves a
\* released entry behind.
C11_ReleaseIdempotent ==
  /\ [][\A x \in ReleaseIds : ReleaseOfReleased(x)]_vars
  /\ [](\A x \in ReleaseIds :
          (rel[x].pc = "done" /\ rel[x].outcome = "ALREADY_RELEASED") =>
            entries[rel[x].entryId].status = "released")

\* the same entry was released twice, one after the other: the first release
\* credited the prize, the second found the entry released; one credit
C11_Witness ==
  \E x1 \in ReleaseIds : \E x2 \in ReleaseIds :
    /\ rel[x1].pc = "done" /\ rel[x1].outcome = "RELEASED"
    /\ rel[x2].pc = "done" /\ rel[x2].outcome = "ALREADY_RELEASED"
    /\ rel[x1].entryId = rel[x2].entryId
    /\ inventory = seeded

\* the steps of confirm request c on an entry that is released: the update
\* matches nothing, the lookup answers CONFLICT; neither writes
ConfirmOfReleased(c) ==
  LET e == conf[c].entryId IN
  (e \in EntryIds /\ entries[e].status = "released") =>
    /\ (conf[c].pc = "update" /\ conf'[c].pc # "update")
         => (conf'[c].pc = "lookup" /\ StoreKept)
    /\ (conf[c].pc = "lookup" /\ conf'[c].pc # "lookup")
         => (conf'[c].pc = "done" /\ conf'[c].outcome = "CONFLICT" /\ StoreKept)

\* C12: confirm on an entry whose status is released is rejected with code
\* CONFLICT, and the entry stays released and every inventory stays
\* unchanged; a confirm answered CONFLICT leaves a released entry behind.
C12_ConfirmReleasedConflict ==
  /\ [][\A c \in ConfirmIds : ConfirmOfReleased(c)]_vars
  /\ [](\A c \in ConfirmIds :
          (conf[c].pc = "done" /\ conf[c].outcome = "CONFLICT") =>
            entries[conf[c].entryId].status = "released")

\* an entry was released and its unit returned, then a confirm of it was
\* rejected with CONFLICT
C12_Witness ==
  \E c \in ConfirmIds : \E x \in ReleaseIds :
    /\ conf[c].pc = "done" /\ conf[c].outcome = "CONFLICT"
    /\ rel[x].pc = "done" /\ rel[x].outcome = "RELEASED"
    /\ rel[x].entryId = conf[c].entryId
    /\ entries[conf[c].entryId].status = "released"
    /\ inventory = seeded

\* the steps of release request x on an entry that is confirmed: the first
\* query misses, the second answers CONFLICT; neither writes
ReleaseOfConfirmed(x) ==
  LET e == rel[x].entryId IN
  (e \in EntryIds /\ entries[e].status = "confirmed") =>
    /\ (rel[x].pc = "find" /\ rel'[x].pc # "find")
         => (rel'[x].pc = "lookup" /\ StoreKept)
    /\ (rel[x].pc = "lookup" /\ rel'[x].pc # "lookup")
         => (rel'[x].pc = "done" /\ rel'[x].outcome = "CONFLICT" /\ StoreKept)

\* C13: release on an entry whose status is confirmed is rejected with code
\* CONFLICT, and the entry stays confirmed and the inventory of its prize is
\* not incremented; every answered release of an entry that is confirmed
\* was answered CONFLICT.
C13_ReleaseConfirmedConflict ==
  /\ [][\A x \in ReleaseIds : ReleaseOfConfirmed(x)]_vars
  /\ [](\A x \in ReleaseIds :
          (/\ rel[x].pc = "done"
           /\ rel[x].entryId \in EntryIds
           /\ entries[rel[x].entryId].status = "confirmed")
            => rel[x].outcome = "CONFLICT")

\* an entry was confirmed, then a release of it was rejected with CONFLICT:
\* the entry is confirmed and its unit is still taken
C13_Witness ==
  \E c \in ConfirmIds : \E x \in ReleaseIds :
    /\ conf[c].pc = "done" /\ conf[c].outcome = "SUCCESS"
    /\ rel[x].pc = "done" /\ rel[x].outcome = "CONFLICT"
    /\ rel[x].entryId = conf[c].entryId
    /\ entries[rel[x].entryId].status = "confirmed"
    /\ inventory[entries[rel[x].entryId].prizeId]
         = seeded[entries[rel[x].entryId].prizeId] - 1

\* the email owns an entry with status reserved or confirmed
OwnsLive(email) ==
  \E e \in EntryIds :
    /\ entries[e].email = email
    /\ entries[e].status = "reserved" \/ entries[e].status = "confirmed"

\* roll request r answers EMAIL_ALREADY_USED in this step
RejectsUsedEmail(r) ==
  /\ roll'[r].pc = "done"
  /\ roll'[r].outcome = "EMAIL_ALREADY_USED"

\* the steps of roll request r whose email check finds a live entry: the
\* check itself (first or second of the two parallel queries) and the answer
RollOfUsedEmail(r) ==
  /\ (/\ roll[r].pc = "read"
      /\ ~roll[r].readExisting
      /\ OwnsLive(roll[r].email)
      /\ roll'[r] # roll[r]
      /\ roll'[r].pc = "read" => roll'[r].readExisting)
       => /\ StoreKept
          /\ IF roll'[r].pc = "read" THEN roll'[r].existing ELSE RejectsUsedEmail(r)
  /\ (/\ roll[r].pc = "read"
      /\ roll[r].readExisting
      /\ roll[r].existing
      /\ roll'[r].pc # "read")
       => (StoreKept /\ RejectsUsedEmail(r))

\* C14: a roll request whose normalized email already owns an entry with
\* status reserved or confirmed at the time of the check is answered with
\* EMAIL_ALREADY_USED; that request decrements no inventory and creates no
\* entry.
C14_EmailAlreadyUsed ==
  /\ [][\A r \in RollIds : RollOfUsedEmail(r)]_vars
  /\ [](\A r \in RollIds :
          (roll[r].pc = "done" /\ roll[r].outcome = "EMAIL_ALREADY_USED") =>
            (roll[r].attempts = 0 /\ roll[r].entryId = NoEntry))

\* an email rolled and confirmed; a second roll with that email (in another
\* letter case or not) was rejected, and the store holds the one entry
C14_Witness ==
  \E r \in RollIds : \E c \in ConfirmIds :
    /\ roll[r].pc = "done" /\ roll[r].outcome = "EMAIL_ALREADY_USED"
    /\ conf[c].pc = "done" /\ conf[c].outcome = "SUCCESS"
    /\ entries[conf[c].entryId].status = "confirmed"
    /\ entries[conf[c].entryId].email = roll[r].email
    /\ Len(entries) = 1
    /\ inventory[entries[1].prizeId] = seeded[entries[1].prizeId] - 1

\* the prizes that have a unit left
InStock == {p \in DOMAIN inventory : inventory[p] > 0}

\* what the two parallel queries of roll request r return: the result a
\* query has delivered, or what the query reads in this step
ReadsAvailable(r) == IF roll[r].readAvail THEN roll[r].available ELSE InStock

ReadsExisting(r) ==
  IF roll[r].readExisting THEN roll[r].existing ELSE OwnsLive(roll[r].email)

AnswersNoInventory(r) ==
  /\ roll'[r].pc = "done"
  /\ roll'[r].outcome = "NO_INVENTORY"

\* NO_INVENTORY and CONFLICT are answered by these steps only: the re-read
\* that finds nothing, and the second claim that is refused on a prize the
\* re-read had found in stock
RereadAndConflict(r) ==
  /\ (roll[r].pc = "reread" /\ roll'[r].pc # "reread")
       => /\ AnswersNoInventory(r) <=> InStock = {}
          /\ InStock # {} => (roll'[r].pc = "retry" /\ roll'[r].prize \in InStock)
  /\ (roll[r].outcome # "NO_INVENTORY" /\ roll'[r].outcome = "NO_INVENTORY")
       => roll[r].pc \in {"read", "reread"}
  /\ (roll[r].outcome # "CONFLICT" /\ roll'[r].outcome = "CONFLICT")
       => /\ roll[r].pc = "retry"
          /\ roll[r].attempts = 1
          /\ inventory[roll[r].prize] = 0
          /\ roll'[r].attempts = 2

\* C15 as stated: a roll request is answered with NO_INVENTORY exactly when
\* the set of prizes with inventory > 0 that it read (on the first read, or
\* on the re-read after a failed claim) was empty; it is answered with
\* CONFLICT only when both of its claim attempts failed although the re-read
\* set was non-empty.
C15_NoInventoryIffEmpty ==
  [][\A r \in RollIds :
       /\ (roll[r].pc = "read" /\ roll'[r].pc # "read")
            => (AnswersNoInventory(r) <=> ReadsAvailable(r) = {})
       /\ RereadAndConflict(r)]_vars

\* C15, amended: on the first read the answer is NO_INVENTORY exactly when
\* the set read was empty and the email check found no live entry (a live
\* entry is answered first, with EMAIL_ALREADY_USED); on the re-read exactly
\* when the set read was empty; CONFLICT only when both claim attempts failed
\* although the re-read set was non-empty.
C15_NoInventoryAfterEmailCheck ==
  [][\A r \in RollIds :
       /\ (roll[r].pc = "read" /\ roll'[r].pc # "read")
            => (AnswersNoInventory(r)
                  <=> (ReadsAvailable(r) = {} /\ ~ReadsExisting(r)))
       /\ RereadAndConflict(r)]_vars

\* one request was answered CONFLICT after two refused claims: the others
\* took the last unit of the prize it selected and of the prize it re-read
C15_Witness ==
  \E r \in RollIds :
    /\ roll[r].pc = "done" /\ roll[r].outcome = "CONFLICT" /\ roll[r].attempts = 2
    /\ \A p \in DOMAIN inventory : inventory[p] = 0

RollOutcomes ==
  {"SUCCESS", "INVALID_EMAIL", "EMAIL_ALREADY_USED", "NO_INVENTORY", "CONFLICT"}

C17_CreatedReserved ==
  [][Len(entries') # Len(entries) =>
       /\ Len(entries') = Len(entries) + 1
       /\ entries'[Len(entries')].status = "reserved"
       /\ entries'[Len(entries')].collected = FALSE
       /\ \A e \in EntryIds : entries'[e] = entries[e]]_vars

\* a roll has just answered success: its entry is the newest one, reserved
\* and not collected
C17_Witness ==
  \E r \in RollIds :
    /\ roll[r].pc = "done" /\ roll[r].outcome = "SUCCESS"
    /\ roll[r].entryId = Len(entries)
    /\ entries[roll[r].entryId].status = "reserved"
    /\ entries[roll[r].entryId].collected = FALSE
    /\ entries[roll[r].entryId].email = roll[r].email

\* entry e has been reserved for longer than the timeout
StaleReserved(e) ==
  /\ e \in EntryIds
  /\ entries[e].status = "reserved"
  /\ entries[e].createdAt < now - StaleMinutes

\* entry e is released and the credit of its unit is not pending
Reclaimed(e) ==
  /\ e \in EntryIds
  /\ entries[e].status = "released"
  /\ \A r \in RollIds :
       ~(sweep[r].pc = "credit" /\ sweep[r].stale[sweep[r].i] = e)
  /\ inventory[entries[e].prizeId] + Live(entries, entries[e].prizeId)
       = seeded[entries[e].prizeId]

\* the entries the store can come to hold: every unit reserved once before
\* the timeout and once after it
EntrySlots == 1..(2 * NumPrizes * MaxInv)

C19_SweepOnlyStaleReserved ==
  [][\A r \in RollIds :
       (sweep[r].pc = "update" /\ sweep'[r].pc = "credit") =>
         LET e == sweep[r].stale[sweep[r].i] IN
         /\ entries[e].status = "reserved"
         /\ entries[e].createdAt < now - StaleMinutes]_vars

\* the confirm requests that moved entry e to confirmed
Confirmed(e) ==
  {c \in ConfirmIds :
     conf[c].pc = "done" /\ conf[c].outcome = "SUCCESS" /\ conf[c].entryId = e}

\* two roll requests with distinct emails have been answered on a pool whose
\* single prize p was seeded with one unit
TwoCallers(p) ==
  /\ DOMAIN seeded = {p}
  /\ seeded[p] = 1
  /\ Cardinality(RollsArrived) = 2
  /\ DistinctValidEmails
  /\ \A r \in RollIds : roll[r].pc \in {"idle", "done"}

\* C20: with a single prize P seeded with inventory 1 and two concurrent roll
\* requests with distinct emails, exactly one request succeeds with P and a
\* fresh entry id, the other is answered NO_INVENTORY (never CONFLICT), the
\* inventory of P ends at 0, and confirming the winning entry changes the
\* stats totalRolls from 0 to 1.
C20_TwoCallerScenario ==
  \A p \in PrizeIds :
    TwoCallers(p) =>
      \E w \in RollsArrived : \E l \in RollsArrived :
        /\ w # l
        /\ roll[w].outcome = "SUCCESS"
        /\ roll[w].prize = p
        /\ Len(entries) = 1
        /\ roll[w].entryId = 1
        /\ entries[1].email = roll[w].email
        /\ entries[1].prizeId = p
        /\ roll[l].outcome = "NO_INVENTORY"
        /\ inventory[p] = 0
        /\ totalRolls(entries) = IF Confirmed(roll[w].entryId) = {} THEN 0 ELSE 1

\* the scenario has run to its end: the loser was refused on its claim and
\* found nothing on the re-read, the winner's entry is confirmed
C20_Witness ==
  \E p \in PrizeIds :
    /\ TwoCallers(p)
    /\ \E l \in RollsArrived :
         roll[l].outcome = "NO_INVENTORY" /\ roll[l].attempts = 1
    /\ Confirmed(1) # {}
    /\ totalRolls(entries) = 1

\* the timeout scenario on prize p: the store holds B's reservation of the
\* only unit of the single prize, and the cleanup of the first roll request
\* found it stale and has completed
TimeoutSwept(p) ==
  /\ DOMAIN seeded = {p}
  /\ seeded[p] = 1
  /\ Len(entries) >= 1
  /\ entries[1].createdAt = 0
  /\ sweep[1].pc = "done"
  /\ sweep[1].stale = <<1>>

\* C21: after email B reserves the only unit of a single-unit prize and never
\* confirms, once the timeout has elapsed and a sweep has completed the
\* prize's inventory is 1 again and B's entry is released, and a subsequent
\* roll request for a different email C succeeds (and takes the unit).
C21_TimeoutScenario ==
  \A p \in PrizeIds :
    TimeoutSwept(p) =>
      /\ entries[1].status = "released"
      /\ roll[2].pc = "idle" => inventory[p] = 1
      /\ (/\ roll[2].pc = "done"
          /\ roll[2].outcome # "INVALID_EMAIL"
          /\ roll[2].email # entries[1].email) =>
           /\ roll[2].outcome = "SUCCESS"
           /\ roll[2].prize = p
           /\ roll[2].entryId = 2
           /\ entries[2].status = "reserved" => inventory[p] = 0

\* the scenario has run to its end: B's entry is released and C holds the unit
C21_Witness ==
  \E p \in PrizeIds :
    /\ TimeoutSwept(p)
    /\ roll[2].pc = "done" /\ roll[2].outcome = "SUCCESS"
    /\ roll[2].email # entries[1].email
    /\ entries[1].status = "released"
    /\ entries[2].status = "reserved" /\ entries[2].email = roll[2].email
    /\ inventory[p] = 0

\* ------------------------------------------------------------------ C22
\* the confirmed entries of a store, counted entry by entry
RECURSIVE ConfirmedIn(_)
ConfirmedIn(es) ==
  IF es = <<>> THEN 0
  ELSE (IF Head(es).status = "confirmed" THEN 1 ELSE 0) + ConfirmedIn(Tail(es))

RECURSIVE ConfirmedOf(_, _)
ConfirmedOf(es, p) ==
  IF es = <<>> THEN 0
  ELSE (IF Head(es).status = "confirmed" /\ Head(es).prizeId = p THEN 1 ELSE 0)
       + ConfirmedOf(Tail(es), p)

RECURSIVE CollectedIn(_)
CollectedIn(es) ==
  IF es = <<>> THEN 0
  ELSE (IF Head(es).status = "confirmed" /\ Head(es).collected THEN 1 ELSE 0)
       + CollectedIn(Tail(es))

RECURSIVE SumCounts(_, _)
SumCounts(f, S) ==
  IF S = {} THEN 0
  ELSE LET p == CHOOSE q \in S : TRUE IN f[p] + SumCounts(f, S \ {p})

\* the stats request is answered in this step
StatsAnswered == stats.pc = "counts" /\ stats'.pc = "done"

\* C22: a stats request served while no other request changes the store
\* answers totalRolls = the number of confirmed entries, for every prize a
\* count = the number of confirmed entries of that prize, counts that sum to
\* totalRolls, and totalRolls = collected + pending; reserved and released
\* entries are counted nowhere.
C22_StatsQuiescent ==
  [][StatsAnswered =>
       /\ stats'.totalRolls = ConfirmedIn(entries)
       /\ DOMAIN stats'.prizeDistribution = DOMAIN inventory
       /\ \A p \in DOMAIN inventory :
            stats'.prizeDistribution[p] = ConfirmedOf(entries, p)
       /\ SumCounts(stats'.prizeDistribution, DOMAIN inventory) = stats'.totalRolls
       /\ stats'.collected = CollectedIn(entries)
       /\ stats'.totalRolls = stats'.collected + stats'.pending]_vars

C22_Witness ==
  /\ stats.pc = "done"
  /\ stats.totalRolls = 2
  /\ stats.collected = 1
  /\ stats.pending = 1
  /\ \E p, q \in DOMAIN inventory :
       p # q /\ stats.prizeDistribution[p] = 1 /\ stats.prizeDistribution[q] = 1
  /\ \E e \in EntryIds : entries[e].status = "released" /\ entries[e].collected

\* ------------------------------------------------------------------ C23
\* C23: every stats response is one point-in-time snapshot: also when confirm
\* requests complete between its queries, the prizeDistribution counts of a
\* response sum to its totalRolls.
C23_StatsSnapshot ==
  stats.pc = "done" =>
    SumCounts(stats.prizeDistribution, DOMAIN stats.prizeDistribution) = stats.totalRolls

\* ------------------------------------------------------------------ C24
HasAt(s) == \E i \in 1..Len(s) : s[i] = "@"

\* roll request r is answered INVALID_EMAIL in this step
AnswersInvalidEmail(r) ==
  roll[r].outcome # "INVALID_EMAIL" /\ roll'[r].outcome = "INVALID_EMAIL"

\* C24: a roll request whose email is missing or malformed is answered
\* INVALID_EMAIL as it arrives, before any store access: that step reads no
\* collection, decrements no inventory, creates no entry and starts no
\* cleanup; a request goes on to its reads only with a well-formed email.
C24_InvalidEmailFirst ==
  [][\A r \in RollIds :
       /\ AnswersInvalidEmail(r) =>
            /\ roll[r].pc = "idle"
            /\ ~roll'[r].readExisting /\ ~roll'[r].readAvail
            /\ roll'[r].attempts = 0
            /\ StoreKept
            /\ sweep' = sweep
       /\ (roll[r].pc = "idle" /\ roll'[r].pc # "idle" /\ ~HasAt(roll'[r].email)) =>
            AnswersInvalidEmail(r)]_vars

C24_Witness ==
  \E r \in RollIds :
    /\ roll[r].outcome = "INVALID_EMAIL"
    /\ roll[r].email = <<>>
    /\ sweep[r].pc = "none"
    /\ Len(entries) = 1
    /\ \E q \in RollIds : roll[q].pc = "insert"

\* ------------------------------------------------------------------ C25
\* C25: an entry's createdAt never changes once the entry exists, across
\* confirm, release, cleanup and collected-flag updates; its updatedAt never
\* decreases (the clock does not) and is always >= its createdAt.
C25_Timestamps ==
  [][\A e \in EntryIds :
       /\ entries'[e].createdAt = entries[e].createdAt
       /\ entries'[e].updatedAt >= entries[e].updatedAt
       /\ entries'[e].updatedAt >= entries'[e].createdAt]_vars

\* the two parts of C25 that do not depend on the order of concurrent writes
C25_CreatedAtKept ==
  [][\A e \in EntryIds :
       /\ entries'[e].createdAt = entries[e].createdAt
       /\ entries'[e].updatedAt >= entries'[e].createdAt]_vars

\* ------------------------------------------------------------------ C26
\* the roll requests answered with anything but success
Failures == {r \in RollIds : roll[r].pc = "done" /\ roll[r].outcome # "SUCCESS"}

\* C26: a roll request that is not answered with success (INVALID_EMAIL,
\* EMAIL_ALREADY_USED, NO_INVENTORY, CONFLICT or a database error at any
\* step, a failed insert after the decrement included) leaves every inventory
\* as it was before the request: once all requests are answered, a prize has
\* lost exactly the units of the requests answered with success.
C26_FailedRollKeepsInventory ==
  (\A r \in RollIds : roll[r].pc \in {"idle", "done"}) =>
    \A p \in DOMAIN inventory :
      inventory[p] = seeded[p] - Cardinality(Successes(p))

\* ------------------------------------------------------------------ C27
\* roll request r takes a step in which it stays short of its claim
RollReads(r) ==
  /\ roll'[r] # roll[r]
  /\ roll[r].pc \in {"idle", "read"}
  /\ roll'[r].pc # "insert"

Decrements(r) == roll[r].pc \in {"claim", "retry"} /\ roll'[r].pc = "insert"

\* C28: for every successful roll, first attempt or retry, the prize answered
\* as winningFace is the prize whose inventory the request decremented, that
\* prize had inventory > 0 at the decrement, and prizeId, prizeName and
\* prizeIcon of the created entry are those of that prize.
C28_WinningFaceIsDecremented ==
  [][\A r \in RollIds :
       /\ Decrements(r) =>
            /\ roll[r].prize \in DOMAIN inventory
            /\ inventory[roll[r].prize] > 0
            /\ inventory'[roll[r].prize] = inventory[roll[r].prize] - 1
            /\ \A p \in DOMAIN inventory \ {roll[r].prize} : inventory'[p] = inventory[p]
            /\ roll'[r].prize = roll[r].prize
       /\ (roll'[r].outcome = "SUCCESS" /\ roll[r].outcome # "SUCCESS") =>
            /\ roll[r].pc = "insert"
            /\ roll'[r].prize = roll[r].prize
            /\ roll'[r].entryId = Len(entries')
            /\ Len(entries') = Len(entries) + 1
            /\ entries'[Len(entries')].prizeId = roll[r].prize
            /\ entries'[Len(entries')].prizeName = PrizeName(roll[r].prize)
            /\ entries'[Len(entries')].prizeIcon = PrizeIcon(roll[r].prize)]_vars

C28_Witness ==
  \E r \in RollIds :
    /\ roll[r].outcome = "SUCCESS"
    /\ roll[r].retried
    /\ roll[r].prize = 2
    /\ entries[roll[r].entryId].prizeId = 2
    /\ entries[roll[r].entryId].prizeName = PrizeName(2)
    /\ inventory[2] = seeded[2] - 1

\* ------------------------------------------------------------------ C29
\* C29: a confirm or release request whose entry id matches no entry is
\* answered NOT_FOUND, and none of its steps changes an entry or an
\* inventory.
C29_UnknownIdNotFound ==
  [][/\ \A c \in ConfirmIds :
          (conf[c].pc # "idle" /\ conf[c].entryId \notin EntryIds) =>
            /\ conf[c].pc = "done" => conf[c].outcome = "NOT_FOUND"
            /\ conf'[c] # conf[c] =>
                 /\ StoreKept
                 /\ conf'[c].pc = "done" => conf'[c].outcome = "NOT_FOUND"
     /\ \A x \in ReleaseIds :
          (rel[x].pc # "idle" /\ rel[x].entryId \notin EntryIds) =>
            /\ rel[x].pc = "done" => rel[x].outcome = "NOT_FOUND"
            /\ rel'[x] # rel[x] =>
                 /\ StoreKept
                 /\ rel'[x].pc = "done" => rel'[x].outcome = "NOT_FOUND"]_vars

C29_Witness ==
  /\ \E c \in ConfirmIds :
       conf[c].pc = "done" /\ conf[c].entryId = NoEntry /\ conf[c].outcome = "NOT_FOUND"
  /\ \E x \in ReleaseIds :
       rel[x].pc = "done" /\ rel[x].entryId = NoEntry /\ rel[x].outcome = "NOT_FOUND"
  /\ Len(entries) = 1

\* ------------------------------------------------------------------ C30
\* the confirm requests that moved entry e to confirmed
ConfirmsPerformed(e) ==
  {c \in ConfirmIds : conf[c].pc = "done" /\ conf[c].matched /\ conf[c].entryId = e}

\* C30: when a confirm request and a release request (or a cleanup) for the
\* same reserved entry run concurrently, exactly one of the two transitions
\* takes effect: they never both report their transition, and once they are
\* answered the prize was credited if and only if the entry is released.
C30_ConfirmOrRelease ==
  \A e \in EntryIds :
    /\ ~(ConfirmsPerformed(e) # {} /\ ReleaseCredits(e) \cup SweepCredits(e) # {})
    /\ Quiet =>
         (ReleaseCredits(e) \cup SweepCredits(e) # {} <=> entries[e].status = "released")

\* ------------------------------------------------------------------ C31
\* C31: in every reachable state no prize's inventory exceeds the value the
\* prize was last seeded or reset to, also after a reset followed by the
\* release of an entry reserved before the reset.
C31_InventoryAtMostSeeded ==
  \A p \in DOMAIN inventory : inventory[p] <= seeded[p]

IdentityKept ==
  /\ Len(entries') = Len(entries)
  /\ \A e \in EntryIds :
       /\ entries'[e].email = entries[e].email
       /\ entries'[e].prizeId = entries[e].prizeId

\* C32: no step of a confirm request, of the stats query, of the entries
\* listing or of the collected-flag update changes an inventory; no step of
\* a confirm request or of the collected-flag update changes an entry's
\* email or prizeId; and no step of the collected-flag update changes an
\* entry's status.
C32_ReadersKeepInventory ==
  [][/\ conf' # conf => (inventory' = inventory /\ IdentityKept)
     /\ stats' # stats => inventory' = inventory
     /\ listing' # listing => inventory' = inventory
     /\ patch' # patch =>
          /\ inventory' = inventory
          /\ IdentityKept
          /\ \A e \in EntryIds : entries'[e].status = entries[e].status]_vars

C32_Witness ==
  /\ patch.pc = "done" /\ patch.outcome = "SUCCESS"
  /\ entries[patch.entryId].collected
  /\ entries[patch.entryId].status = "reserved"
  /\ \E c \in ConfirmIds : conf[c].pc = "done" /\ conf[c].outcome = "SUCCESS"
  /\ \E p \in DOMAIN inventory : inventory[p] < seeded[p]

\* ------------------------------------------------------------------ C33
\* the email has entries and all of them are released
OnlyReleased(email) ==
  /\ \E e \in EntryIds : entries[e].email = email
  /\ \A e \in EntryIds : entries[e].email = email => entries[e].status = "released"

\* roll request r is answered in this step
RollAnswered(r) == roll[r].pc \notin {"idle", "done"} /\ roll'[r].pc = "done"

\* C33: an email whose entries are all released is not blocked: a later roll
\* request for it is not answered EMAIL_ALREADY_USED, and while some prize
\* has inventory > 0 it is answered with success.
C33_ReleasedEmailNotBlocked ==
  [][\A r \in RollIds :
       (RollAnswered(r) /\ OnlyReleased(roll[r].email)) =>
         /\ roll'[r].outcome # "EMAIL_ALREADY_USED"
         /\ roll'[r].outcome \in {"SUCCESS", "NO_INVENTORY"}
         /\ roll'[r].outcome = "NO_INVENTORY" => InStock = {}
         /\ roll'[r].outcome = "SUCCESS" =>
              /\ entries'[roll'[r].entryId].email = roll[r].email
              /\ entries'[roll'[r].entryId].status = "reserved"]_vars

C33_Witness ==
  \E r \in RollIds :
    /\ roll[r].outcome = "SUCCESS"
    /\ roll[r].entryId = 2
    /\ entries[1].status = "released"
    /\ entries[1].email = roll[r].email
    /\ entries[2].email = roll[r].email
    /\ entries[2].status = "reserved"

\* ------------------------------------------------------------------ C34
\* C34: in every reachable state the prizes collection holds at most one
\* document per prize id, also when several GET /api/prizes requests run
\* concurrently against an empty collection.
C34_OneDocumentPerPrizeId == \A p \in PrizeIds : docs[p] <= 1

\* ------------------------------------------------------------------ C36
\* email, prize and status of every entry
Reservations(es) ==
  [e \in 1..Len(es) |->
     [email |-> es[e].email, prizeId |-> es[e].prizeId, status |-> es[e].status]]

\* C36: the Express server and the serverless handlers are equivalent on the
\* reservation protocol: after the same sequence of roll, confirm and release
\* requests from the same store, the last request was answered with the same
\* status code and error code by both, and both stores hold the same entries
\* and inventories.
C36_ExpressEquivalent ==
  (AllMirrored /\ Quiet) =>
    /\ express.response = express.expected
    /\ Reservations(express.entries) = Reservations(entries)
    /\ express.inventory = inventory

\* ------------------------------------------------------------------ C37
\* C37: the roll page reveals a prize only for a confirmed entry: whenever
\* the page is in state showing-splash, on the normal path, the safety
\* timeout path and the confirm-fails path alike, the entry it rolled has
\* status confirmed.
C37_SplashOnlyForConfirmed ==
  page.diceState = "showing-splash" =>
    /\ page.currentEntryId \in EntryIds
    /\ entries[page.currentEntryId].status = "confirmed"

====
